---- MODULE Spec2Model ----
(***************************************************************************)
(* A model of the job pipeline of FxxkJobSearch: the record store          *)
(* (src/src/database.py), the dedup key (src/src/utils.py), the ingestion  *)
(* loop (src/src/scraper.py), the relevance filter (src/src/filter.py),    *)
(* the requirement extractor (src/src/analyzer.py) and the generate stage  *)
(* (src/src/builder.py).                                                   *)
(*                                                                         *)
(* Text is a sequence of one-character strings.  A description text is     *)
(* kept as its length only (the code reads nothing else of it), a posting  *)
(* timestamp as a day number.  Every batch stage is a start action (the    *)
(* selection), one action per record of the batch (the record's own        *)
(* commit) and an end action; Kill ends the process between two writes.    *)
(***************************************************************************)
EXTENDS Integers, Sequences, FiniteSets, TLC

VARIABLES
    jobs,       \* the jobs table: a sequence of rows, row i has id i
    now,        \* the current day (datetime.now)
    pc,         \* the stage the process is in, "idle" between invocations
    batch,      \* the ids the running stage has selected and not yet processed
    cmd,        \* the command main.py is running and the stages it has still to call
    call,       \* the most recent call of a pure function: its arguments and result
    last,       \* history: what the most recent step did
    prev,       \* history: the most recent stage run and how it ended
    changes     \* history: rows changed by the stage run in progress

vars == <<jobs, now, pc, batch, cmd, call, last, prev, changes>>

-----------------------------------------------------------------------------
(* Bounds of the model *)

MaxJobs == 2        \* rows the table may hold
StartDay == 10      \* the day the first invocation runs
TickDays == 7       \* days that pass in one step of the clock
MaxDay == StartDay + TickDays    \* the clock stops here
MaxBullets == 3     \* bullets handed to the matching engine
MaxTopN == 2        \* the largest top_n argument, 0 standing for None
MaxTexts == 100     \* bullet texts handed to embed_texts, beside the query
MaxTextLen == 3     \* characters of a text handed to escape_latex or _normalize

(* Program constants *)

MAX_JOB_AGE_DAYS == 7
MinJdLen == 50          \* analyze_single_jd: len(jd_text.strip()) < 50
BackfillLen == 100      \* backfill_linkedin_jd: length(jd_text) < 100, len(jd_text) > 100

NULL == "NULL"

-----------------------------------------------------------------------------
(* Text: src/src/utils.py *)

Upper ==
    [c \in {"A","B","C","D","E","F","G","H","I","J","K","L","M",
            "N","O","P","Q","R","S","T","U","V","W","X","Y","Z"} |->
        CASE c = "A" -> "a" [] c = "B" -> "b" [] c = "C" -> "c" [] c = "D" -> "d"
          [] c = "E" -> "e" [] c = "F" -> "f" [] c = "G" -> "g" [] c = "H" -> "h"
          [] c = "I" -> "i" [] c = "J" -> "j" [] c = "K" -> "k" [] c = "L" -> "l"
          [] c = "M" -> "m" [] c = "N" -> "n" [] c = "O" -> "o" [] c = "P" -> "p"
          [] c = "Q" -> "q" [] c = "R" -> "r" [] c = "S" -> "s" [] c = "T" -> "t"
          [] c = "U" -> "u" [] c = "V" -> "v" [] c = "W" -> "w" [] c = "X" -> "x"
          [] c = "Y" -> "y" [] c = "Z" -> "z"]

LowerChar(c) == IF c \in DOMAIN Upper THEN Upper[c] ELSE c

\* str.lower()
Lower(text) == [i \in 1..Len(text) |-> LowerChar(text[i])]

\* the regex class \s
IsSpace(c) == c \in {" ", "\t", "\n"}

\* the regex class \w
IsWord(c) ==
    \/ c \in DOMAIN Upper
    \/ c \in {"a","b","c","d","e","f","g","h","i","j","k","l","m",
              "n","o","p","q","r","s","t","u","v","w","x","y","z"}
    \/ c \in {"0","1","2","3","4","5","6","7","8","9","_"}

RECURSIVE LStrip(_)
LStrip(text) ==
    IF text # <<>> /\ IsSpace(Head(text)) THEN LStrip(Tail(text)) ELSE text

RECURSIVE RStrip(_)
RStrip(text) ==
    IF text # <<>> /\ IsSpace(text[Len(text)])
    THEN RStrip(SubSeq(text, 1, Len(text) - 1))
    ELSE text

\* str.strip()
Strip(text) == RStrip(LStrip(text))

\* re.sub(r"[^\w\s]", "", text)
RECURSIVE RemovePunct(_)
RemovePunct(text) ==
    IF text = <<>> THEN <<>>
    ELSE IF IsWord(Head(text)) \/ IsSpace(Head(text))
         THEN <<Head(text)>> \o RemovePunct(Tail(text))
         ELSE RemovePunct(Tail(text))

\* re.sub(r"\s+", " ", text): every run of whitespace becomes one blank
RECURSIVE CollapseSpace(_)
CollapseSpace(text) ==
    IF text = <<>> THEN <<>>
    ELSE IF IsSpace(Head(text))
         THEN <<" ">> \o CollapseSpace(LStrip(Tail(text)))
         ELSE <<Head(text)>> \o CollapseSpace(Tail(text))

_normalize(text) == CollapseSpace(RemovePunct(Strip(Lower(text))))

\* hashlib.sha256(...).hexdigest()[:16].  The digest is kept as its preimage:
\* two texts have the same digest exactly when they are equal.
sha256_16(text) == <<"sha256">> \o text

compute_job_hash(company, title) ==
    sha256_16(_normalize(company) \o <<"|">> \o _normalize(title))

\* the Python test `needle in text`
Contains(text, needle) ==
    \E i \in 1..(Len(text) - Len(needle) + 1) :
        SubSeq(text, i, i + Len(needle) - 1) = needle

\* str.replace(old, new) for a one-character old: every occurrence of old,
\* left to right, becomes new
RECURSIVE replace(_, _, _)
replace(text, old, new) ==
    IF text = <<>> THEN <<>>
    ELSE (IF Head(text) = old THEN new ELSE <<Head(text)>>)
         \o replace(Tail(text), old, new)

\* the list of escape_latex, in its order
replacements ==
    << <<"\\", <<"\\","t","e","x","t","b","a","c","k","s","l","a","s","h","{","}">> >>,
       <<"&", <<"\\", "&">> >>,
       <<"%", <<"\\", "%">> >>,
       <<"$", <<"\\", "$">> >>,
       <<"#", <<"\\", "#">> >>,
       <<"_", <<"\\", "_">> >>,
       <<"{", <<"\\", "{">> >>,
       <<"}", <<"\\", "}">> >>,
       <<"~", <<"\\","t","e","x","t","a","s","c","i","i","t","i","l","d","e","{","}">> >>,
       <<"^", <<"\\","t","e","x","t","a","s","c","i","i","c","i","r","c","u","m","{","}">> >> >>

\* for old, new in replacements[k..]: text = text.replace(old, new)
RECURSIVE replace_from(_, _)
replace_from(text, k) ==
    IF k > Len(replacements) THEN text
    ELSE replace_from(replace(text, replacements[k][1], replacements[k][2]), k + 1)

escape_latex(text) == replace_from(text, 1)

-----------------------------------------------------------------------------
(* Configuration: src/config.py *)

TITLE_EXCLUDE_KEYWORDS ==
    << <<"s","e","n","i","o","r">>,
       <<"s","t","a","f","f">>,
       <<"l","e","a","d">>,
       <<"p","r","i","n","c","i","p","a","l">>,
       <<"h","e","a","d"," ","o","f">>,
       <<"m","a","n","a","g","e","r">>,
       <<"d","i","r","e","c","t","o","r">>,
       <<"v","p"," ">>,
       <<"v","i","c","e"," ","p","r","e","s","i","d","e","n","t">>,
       <<"h","r"," ">>,
       <<"h","u","m","a","n"," ","r","e","s","o","u","r","c","e">>,
       <<"m","a","r","k","e","t","i","n","g">>,
       <<"s","a","l","e","s">>,
       <<"f","i","n","a","n","c","e">>,
       <<"a","c","c","o","u","n","t","i","n","g">>,
       <<"l","e","g","a","l">>,
       <<"c","o","u","n","s","e","l">>,
       <<"c","u","s","t","o","m","e","r"," ","s","e","r","v","i","c","e">>,
       <<"c","u","s","t","o","m","e","r"," ","s","u","c","c","e","s","s">>,
       <<"u","x"," ","d","e","s","i","g","n">>,
       <<"u","i"," ","d","e","s","i","g","n">>,
       <<"g","r","a","p","h","i","c"," ","d","e","s","i","g","n">>,
       <<"c","o","n","t","e","n","t">>,
       <<"s","o","c","i","a","l"," ","m","e","d","i","a">>,
       <<"i","n","f","l","u","e","n","c","e","r">>,
       <<"p","h","d">>,
       <<"p","o","s","t","d","o","c">> >>

TITLE_INCLUDE_KEYWORDS ==
    << <<"i","n","t","e","r","n">>,
       <<"i","n","t","e","r","n","s","h","i","p">>,
       <<"s","t","u","d","e","n","t">>,
       <<"j","u","n","i","o","r">>,
       <<"g","r","a","d","u","a","t","e">>,
       <<"e","n","t","r","y">>,
       <<"t","r","a","i","n","e","e">>,
       <<"a","p","p","r","e","n","t","i","c","e">>,
       <<"s","t","u","d","i","e","j","o","b">>,
       <<"p","r","a","k","t","i","k">> >>

-----------------------------------------------------------------------------
(* The postings the ingestion adapters deliver.  posted_at is NoDate (None),*)
(* BadDate (a text no format parses) or OnDay(d); jd_len is the length of  *)
(* the cleaned description, 0 when the adapter gave none; linkedin_url     *)
(* says whether the url holds "linkedin.com".  A description of length 4   *)
(* is the text "None" that str() makes of a missing description.           *)

NoDate == [kind |-> "none", day |-> 0]
BadDate == [kind |-> "bad", day |-> 0]
OnDay(d) == [kind |-> "day", day |-> d]

AcmeIncDot == <<"A","c","m","e"," ","I","n","c",".">>
AcmeLower == <<"a","c","m","e"," ","i","n","c">>
AcmeIncSpaceDot == <<"A","c","m","e"," ","I","n","c"," ",".">>
Beta == <<"B","e","t","a">>
PythonIntern == <<"P","y","t","h","o","n"," ","I","n","t","e","r","n">>
PythonInternLower == <<"p","y","t","h","o","n"," "," ","i","n","t","e","r","n">>
SeniorSalesManager ==
    <<"S","e","n","i","o","r"," ","S","a","l","e","s"," ","M","a","n","a","g","e","r">>
SalesIntern == <<"S","A","L","E","S"," ","I","n","t","e","r","n">>
MLEngineer == <<"M","L"," ","E","n","g","i","n","e","e","r">>

Posting(platform, company, title, posted_at, jd_len, linkedin_url) ==
    [platform |-> platform, company |-> company, title |-> title,
     posted_at |-> posted_at, jd_len |-> jd_len, linkedin_url |-> linkedin_url]

Catalog ==
    << Posting("linkedin", AcmeIncDot, PythonIntern, OnDay(StartDay - 1), 4, TRUE),
       Posting("thehub", AcmeLower, PythonInternLower, NoDate, 0, FALSE),
       Posting("indeed", Beta, SeniorSalesManager, OnDay(StartDay - 1), 120, FALSE),
       Posting("thehub", Beta, SalesIntern, BadDate, 120, FALSE),
       Posting("linkedin", AcmeIncSpaceDot, PythonIntern, OnDay(StartDay - MAX_JOB_AGE_DAYS), 60, TRUE),
       Posting("indeed", Beta, MLEngineer, OnDay(StartDay - 1), 120, FALSE),
       Posting("indeed", Beta, <<>>, NoDate, 120, FALSE) >>

-----------------------------------------------------------------------------
(* The record store: src/src/database.py *)

\* the value a column without a DEFAULT gets: _CREATE_TABLE_SQL gives relevance none
Row(id, job_data) ==
    [id |-> id,
     platform |-> job_data.platform,
     title |-> job_data.title,
     company |-> job_data.company,
     linkedin_url |-> job_data.linkedin_url,
     content_hash |-> job_data.content_hash,
     jd_len |-> job_data.jd_len,
     posted_at |-> job_data.posted_at,
     relevance |-> NULL,
     analysis |-> NULL,
     resume_path |-> NULL,
     status |-> "new"]

Ids(db) == 1..Len(db)

\* the UNIQUE constraint on content_hash
HashExists(db, h) == \E i \in Ids(db) : db[i].content_hash = h

insert_job_nounique(db, job_data) ==
    [db |-> Append(db, Row(Len(db) + 1, job_data)), inserted |-> TRUE]

\* INSERT OR REPLACE: the row that holds the hash is overwritten
insert_job_replace(db, job_data) ==
    IF HashExists(db, job_data.content_hash)
    THEN LET i == CHOOSE k \in Ids(db) : db[k].content_hash = job_data.content_hash
         IN [db |-> [db EXCEPT ![i] = Row(i, job_data)], inserted |-> TRUE]
    ELSE [db |-> Append(db, Row(Len(db) + 1, job_data)), inserted |-> TRUE]

insert_job(db, job_data) ==
    IF HashExists(db, job_data.content_hash)
    THEN [db |-> db, inserted |-> FALSE]
    ELSE [db |-> Append(db, Row(Len(db) + 1, job_data)), inserted |-> TRUE]

\* the ids of a set of rows in ascending (ORDER BY id) order
RECURSIVE Ascending(_)
Ascending(S) ==
    IF S = {} THEN <<>>
    ELSE LET m == CHOOSE x \in S : \A y \in S : x <= y
         IN <<m>> \o Ascending(S \ {m})

\* ... and in descending order
RECURSIVE Descending(_)
Descending(S) ==
    IF S = {} THEN <<>>
    ELSE LET m == CHOOSE x \in S : \A y \in S : x >= y
         IN <<m>> \o Descending(S \ {m})

get_jobs_by_status_any(db, status) == Descending(Ids(db))

\* ORDER BY created_at DESC: created_at never decreases with the id
get_jobs_by_status(db, status) ==
    Descending({i \in Ids(db) : db[i].status = status})

get_unscored_jobs_all(db) == Ascending(Ids(db))

get_unscored_jobs_not_irrelevant(db) ==
    Ascending({i \in Ids(db) : db[i].relevance # "irrelevant"})

get_unscored_jobs(db) ==
    Ascending({i \in Ids(db) : db[i].relevance = NULL \/ db[i].relevance = "unscored"})

\* UPDATE without its WHERE id = ?
update_job_relevance_all_rows(db, job_id, relevance, status) ==
    [i \in Ids(db) |->
        IF status # NULL
        THEN [db[i] EXCEPT !.relevance = relevance, !.status = status]
        ELSE [db[i] EXCEPT !.relevance = relevance]]

\* status written whatever the argument: the row keeps its status
update_job_relevance_status_kept(db, job_id, relevance, status) ==
    [db EXCEPT ![job_id].relevance = relevance]

\* status NULL is the default argument None: the status column is not written
update_job_relevance(db, job_id, relevance, status) ==
    IF status # NULL
    THEN [db EXCEPT ![job_id].relevance = relevance, ![job_id].status = status]
    ELSE [db EXCEPT ![job_id].relevance = relevance]

update_job_analysis_status_only(db, job_id, analysis) ==
    [db EXCEPT ![job_id].status = "analyzed"]

\* the payload written, the status left
update_job_analysis_payload_only(db, job_id, analysis) ==
    [db EXCEPT ![job_id].analysis = analysis]

update_job_analysis(db, job_id, analysis) ==
    [db EXCEPT ![job_id].analysis = analysis, ![job_id].status = "analyzed"]

update_job_jd(db, job_id, jd_len) ==
    [db EXCEPT ![job_id].jd_len = jd_len]

update_job_resume(db, job_id, resume_path) ==
    [db EXCEPT ![job_id].resume_path = resume_path, ![job_id].status = "generated"]

-----------------------------------------------------------------------------
(* The relevance filter: src/src/filter.py *)

_is_too_old_missing_is_old(posted_at, today) ==
    IF posted_at.kind = "none" THEN TRUE
    ELSE IF posted_at.kind = "bad" THEN TRUE
    ELSE posted_at.day < today - MAX_JOB_AGE_DAYS

\* a missing timestamp and one no format parses are kept
_is_too_old(posted_at, today) ==
    IF posted_at.kind = "none" THEN FALSE
    ELSE IF posted_at.kind = "bad" THEN FALSE
    ELSE posted_at.day < today - MAX_JOB_AGE_DAYS

_is_obvious_irrelevant_nolower(title) ==
    \E k \in DOMAIN TITLE_EXCLUDE_KEYWORDS : Contains(title, TITLE_EXCLUDE_KEYWORDS[k])

_is_obvious_irrelevant(title) ==
    LET title_lower == Lower(title)
    IN \E k \in DOMAIN TITLE_EXCLUDE_KEYWORDS :
           Contains(title_lower, TITLE_EXCLUDE_KEYWORDS[k])

\* What the classifier call does: it answers with a verdict ("true", "false"),
\* with an object that has no is_relevant key ("noverdict"), or the call or the
\* decoding of its answer raises ("fail").
ClassifierResponses == {"true", "false", "noverdict", "fail"}

\* result.get("is_relevant", True): a response without a verdict is accepted
_check_relevance_with_llm_default_true(response, title) ==
    CASE response = "true" -> [is_relevant |-> TRUE, reason |-> "llm"]
      [] response = "false" -> [is_relevant |-> FALSE, reason |-> "llm"]
      [] response = "noverdict" -> [is_relevant |-> TRUE, reason |-> "No reason provided"]
      [] OTHER ->
            IF \/ Contains(Lower(title), <<"i","n","t","e","r","n">>)
               \/ Contains(Lower(title), <<"s","t","u","d","e","n","t">>)
            THEN [is_relevant |-> TRUE, reason |-> "LLM failed, fallback to keyword"]
            ELSE [is_relevant |-> FALSE, reason |-> "LLM failed"]

_check_relevance_with_llm(response, title) ==
    CASE response = "true" -> [is_relevant |-> TRUE, reason |-> "llm"]
      [] response = "false" -> [is_relevant |-> FALSE, reason |-> "llm"]
      [] response = "noverdict" -> [is_relevant |-> FALSE, reason |-> "No reason provided"]
      [] OTHER ->
            IF \/ Contains(Lower(title), <<"i","n","t","e","r","n">>)
               \/ Contains(Lower(title), <<"s","t","u","d","e","n","t">>)
            THEN [is_relevant |-> TRUE, reason |-> "LLM failed, fallback to keyword"]
            ELSE [is_relevant |-> FALSE, reason |-> "LLM failed"]

\* One turn of the loop of filter_jobs on row job_id: the rules first, the
\* classifier only for a row both rules keep.  called: the classifier was asked.
\* a row whose classifier call failed is left as it was
filter_one_keep_on_failure(db, job_id, today, response) ==
    IF _is_too_old(db[job_id].posted_at, today)
    THEN [db |-> update_job_relevance(db, job_id, "irrelevant", "filtered"),
          called |-> FALSE]
    ELSE IF _is_obvious_irrelevant(db[job_id].title)
    THEN [db |-> update_job_relevance(db, job_id, "irrelevant", "filtered"),
          called |-> FALSE]
    ELSE IF response = "fail"
    THEN [db |-> db, called |-> TRUE]
    ELSE IF _check_relevance_with_llm(response, db[job_id].title).is_relevant
    THEN [db |-> update_job_relevance(db, job_id, "relevant", NULL),
          called |-> TRUE]
    ELSE [db |-> update_job_relevance(db, job_id, "irrelevant", "filtered"),
          called |-> TRUE]

filter_one(db, job_id, today, response) ==
    IF _is_too_old(db[job_id].posted_at, today)
    THEN [db |-> update_job_relevance(db, job_id, "irrelevant", "filtered"),
          called |-> FALSE]
    ELSE IF _is_obvious_irrelevant(db[job_id].title)
    THEN [db |-> update_job_relevance(db, job_id, "irrelevant", "filtered"),
          called |-> FALSE]
    ELSE IF _check_relevance_with_llm(response, db[job_id].title).is_relevant
    THEN [db |-> update_job_relevance(db, job_id, "relevant", NULL),
          called |-> TRUE]
    ELSE [db |-> update_job_relevance(db, job_id, "irrelevant", "filtered"),
          called |-> TRUE]

-----------------------------------------------------------------------------
(* The requirement extractor: src/src/analyzer.py *)

\* What generate_content answers.  "raise": the call raises; "empty": no text;
\* the others are the text of the answer:
\*   "garbage"      text without braces that is no JSON
\*   "scalar"       42
\*   "empty_list"   []
\*   "list_scalar"  [1]
\*   "list_obj"     [{"match_score": 0.8, ...}]
\*   "obj"          {"match_score": 0.8, ...}
\*   "fenced_obj"   ```json {"match_score": 0.8, ...} ```
\*   "prose_obj"    Here it is: {"match_score": 0.8, ...}
\*   "empty_obj"    {}
ExtractorResponses ==
    {"raise", "empty", "garbage", "scalar", "empty_list", "list_scalar",
     "list_obj", "obj", "fenced_obj", "prose_obj", "empty_obj"}

\* The text handed to json.loads: the group of the fence, else the span from the
\* first "{" to the last "}", else the text itself.
ExtractJsonText(response) ==
    CASE response = "fenced_obj" -> "obj"
      [] response = "prose_obj" -> "obj"
      [] response = "list_obj" -> "obj"
      [] OTHER -> response

\* json.loads, then the first element of a non-empty list; NULL stands for None.
\* The values are "dict" (an object with keys) and "empty_dict" ({}).
ParseAnalysis(text) ==
    CASE text = "obj" -> "dict"
      [] text = "empty_obj" -> "empty_dict"
      [] OTHER -> NULL

\* not jd_text or len(jd_text.strip()) < 50
JdTooShort(jd_len) == jd_len = 0 \/ jd_len < MinJdLen

analyze_single_jd_nolencheck(response, jd_len) ==
    [called |-> TRUE,
     result |-> IF response \in {"raise", "empty"} THEN NULL
                ELSE ParseAnalysis(ExtractJsonText(response))]

analyze_single_jd(response, jd_len) ==
    IF JdTooShort(jd_len)
    THEN [called |-> FALSE, result |-> NULL]
    ELSE [called |-> TRUE,
          result |-> IF response \in {"raise", "empty"} THEN NULL
                     ELSE ParseAnalysis(ExtractJsonText(response))]

\* Python truth of the value analyze_single_jd returns
Truthy(analysis) == analysis # NULL /\ analysis # "empty_dict"

pending_jobs_any_relevance(db) == get_jobs_by_status(db, "new")

\* only the newest pending row is taken
pending_jobs_first_only(db) ==
    LET all == SelectSeq(get_jobs_by_status(db, "new"), LAMBDA i : db[i].relevance = "relevant")
    IN IF all = <<>> THEN <<>> ELSE <<Head(all)>>

\* all_new = db.get_jobs_by_status("new"), kept when relevance == "relevant"
pending_jobs(db) ==
    SelectSeq(get_jobs_by_status(db, "new"), LAMBDA i : db[i].relevance = "relevant")

update_job_status(db, job_id, status) ==
    [db EXCEPT ![job_id].status = status]

analyze_one_skip_on_failure(db, job_id, analysis) ==
    IF Truthy(analysis)
    THEN update_job_analysis(db, job_id, analysis)
    ELSE update_job_status(db, job_id, "skipped")

\* One turn of the loop of analyze_pending_jobs, after analyze_single_jd returned
analyze_one(db, job_id, analysis) ==
    IF Truthy(analysis)
    THEN update_job_analysis(db, job_id, analysis)
    ELSE db

-----------------------------------------------------------------------------
(* The generate stage: src/src/builder.py *)

\* What generate_single_resume does for a row: it returns the path of the
\* artifact ("pdf"), returns None ("none": the template or the typesetting
\* failed), or raises ("raise": matching or decoding raised).
GenerateOutcomes == {"pdf", "none", "raise"}

\* template.render raises jinja2.TemplateError, or gives the text
RenderOutcomes == {"rendered", "TemplateError"}

\* What running the typesetter does: exit code 0 and the file is there ("pdf"),
\* an exit code that is not 0, exit code 0 without the file, TimeoutExpired, or
\* FileNotFoundError because the typesetter is not installed.
TypesetOutcomes == {"pdf", "nonzero", "no_output", "timeout", "not_installed"}

\* the exit code is not looked at
compile_latex_ignores_exit(typeset) == typeset \in {"pdf", "nonzero"}

\* compile_latex: True when the artifact was moved to its path
compile_latex(typeset) == typeset = "pdf"

\* generate_single_resume from the rendering on: the path, or None
generate_single_resume(render, typeset) ==
    IF render = "TemplateError" THEN "none"
    ELSE IF compile_latex(typeset) THEN "pdf"
    ELSE "none"

\* what failed, or "pdf"
Cause(render, typeset) == IF render = "TemplateError" THEN render ELSE typeset

generate_one(db, job_id, outcome) ==
    IF outcome = "pdf"
    THEN update_job_resume(db, job_id, "pdf")
    ELSE db

-----------------------------------------------------------------------------
(* The backfill stage: src/src/scraper.py *)

\* the SELECT without its status != 'filtered'
backfill_selection_any_status(db) ==
    Ascending({i \in Ids(db) :
        /\ db[i].platform = "linkedin"
        /\ db[i].jd_len < BackfillLen})

backfill_selection(db) ==
    Ascending({i \in Ids(db) :
        /\ db[i].platform = "linkedin"
        /\ db[i].jd_len < BackfillLen
        /\ db[i].status # "filtered"})

\* What fetching the page gives: no page (the request raised, or the status was
\* not 200), else the length of the description extracted from the page.
NoPage == [ok |-> FALSE, len |-> 0]
Page(n) == [ok |-> TRUE, len |-> n]
Fetches == {NoPage, Page(0), Page(100), Page(150)}

backfill_one(db, job_id, fetched) ==
    IF ~db[job_id].linkedin_url THEN db
    ELSE IF fetched.ok /\ fetched.len > BackfillLen
    THEN update_job_jd(db, job_id, fetched.len)
    ELSE db

-----------------------------------------------------------------------------
(* The matching engine: src/src/matcher.py *)

TOP_N_BULLETS == 6
MaxSkillLen == 50       \* s if len(s) < 50 else s[:50]

\* A key of the requirement record is absent, holds None, or holds a value (a
\* text or a list, both sequences).  None stands for the Python value None.
Absent == [st |-> "absent", val |-> <<>>]
None == [st |-> "null", val |-> <<>>]
Val(v) == [st |-> "val", val |-> v]

\* the truth of a Python value: None, "" and [] are false
PyTrue(x) == x.st = "val" /\ x.val # <<>>

\* x or y
Or(x, y) == IF PyTrue(x) THEN x ELSE y

\* dict.get(key)
get(d, key) == IF d[key].st = "absent" THEN None ELSE d[key]

\* hard_skills or required_skills or skills or []
hard_skills(jd_analysis) ==
    Or(Or(Or(get(jd_analysis, "hard_skills"), get(jd_analysis, "required_skills")),
          get(jd_analysis, "skills")), Val(<<>>)).val

\* jd_analysis.get("description_keywords", [""])[0] is evaluated when the two
\* aliases before it are false; it raises on None and on the empty list
domain_raises(jd_analysis) ==
    /\ ~PyTrue(get(jd_analysis, "company_domain"))
    /\ ~PyTrue(get(jd_analysis, "industry"))
    /\ \/ jd_analysis["description_keywords"].st = "null"
       \/ /\ jd_analysis["description_keywords"].st = "val"
          /\ jd_analysis["description_keywords"].val = <<>>

\* company_domain or industry or description_keywords[0] or ""
domain(jd_analysis) ==
    IF PyTrue(get(jd_analysis, "company_domain")) THEN jd_analysis["company_domain"].val
    ELSE IF PyTrue(get(jd_analysis, "industry")) THEN jd_analysis["industry"].val
    ELSE IF jd_analysis["description_keywords"].st = "absent" THEN <<>>
    ELSE jd_analysis["description_keywords"].val[1]

\* text[:n]
Take(text, n) == SubSeq(text, 1, IF n < Len(text) THEN n ELSE Len(text))

\* sep.join(texts)
RECURSIVE Join(_, _)
Join(texts, sep) ==
    IF texts = <<>> THEN <<>>
    ELSE IF Len(texts) = 1 THEN texts[1]
    ELSE texts[1] \o sep \o Join(Tail(texts), sep)

\* str.strip(chars)
RECURSIVE StripChars(_, _)
StripChars(text, chars) ==
    IF text # <<>> /\ Head(text) \in chars THEN StripChars(Tail(text), chars)
    ELSE IF text # <<>> /\ text[Len(text)] \in chars
         THEN StripChars(SubSeq(text, 1, Len(text) - 1), chars)
         ELSE text

\* f"{domain}: {', '.join(skill_texts)}"
query_text(jd_analysis) ==
    LET skills == hard_skills(jd_analysis)
        skill_texts == [k \in DOMAIN skills |-> Take(skills[k], MaxSkillLen)]
    IN domain(jd_analysis) \o <<":", " ">> \o Join(skill_texts, <<",", " ">>)

\* Embeddings are vectors of two integers whose norm is an integer, so that the
\* cosine is a multiple of 1/25; a similarity is kept as 25 times its value.
Vectors == {<<1, 0>>, <<3, 4>>, <<0, 0>>}

Dot(a, b) == a[1] * b[1] + a[2] * b[2]

Norm(a) == CHOOSE k \in 0..5 : k * k = Dot(a, a)

SimScale == 5 * 5

\* cosine_similarity of one bullet vector and the query vector: the epsilon in
\* the denominator makes the zero vector give 0
cosine_similarity(a, b) ==
    IF Norm(a) = 0 \/ Norm(b) = 0 THEN 0
    ELSE (SimScale * Dot(a, b)) \div (Norm(a) * Norm(b))

\* the position of index i in the sequence order
Pos(order, i) == CHOOSE k \in DOMAIN order : order[k] = i

\* np.argsort(similarities): the indices by ascending similarity.  The order
\* of equal values is not specified by numpy; it is fixed by the build, here
\* by the order `ties` of the indices.
RECURSIVE SortAscending(_, _, _)
SortAscending(S, similarities, ties) ==
    IF S = {} THEN <<>>
    ELSE LET m == CHOOSE i \in S : \A j \in S \ {i} :
                      \/ similarities[i] < similarities[j]
                      \/ /\ similarities[i] = similarities[j]
                         /\ Pos(ties, i) < Pos(ties, j)
         IN <<m>> \o SortAscending(S \ {m}, similarities, ties)

argsort(similarities, ties) ==
    SortAscending(DOMAIN similarities, similarities, ties)

\* seq[::-1]
Reverse(seq) == [k \in DOMAIN seq |-> seq[Len(seq) + 1 - k]]

ranked_indices_ascending(similarities, top_n, ties) ==
    Take(argsort(similarities, ties), top_n)

\* np.argsort(similarities)[::-1][:top_n]
ranked_indices(similarities, top_n, ties) ==
    Take(Reverse(argsort(similarities, ties)), top_n)

\* embed_texts was not called
NotCalled == [ok |-> FALSE, called |-> FALSE, vec |-> <<>>]

\* embed_texts raised
EmbedRaised == [ok |-> FALSE, called |-> TRUE, vec |-> <<>>]

\* embed_texts returned one vector for each text
Embedded(vec) == [ok |-> TRUE, called |-> TRUE, vec |-> vec]

\* the call returned value; bullets is the list the caller handed in, as the call
\* left it
Returned(value, embedded, bullets) ==
    [raised |-> FALSE, value |-> value, embedded |-> embedded, bullets |-> bullets]

Raised(embedded, bullets) ==
    [raised |-> TRUE, value |-> <<>>, embedded |-> embedded, bullets |-> bullets]

\* bullet = bullets[idx]; bullet["similarity"] = ...: the dict of the list is written
scored_in_place(bullets, idx, similarity) ==
    LET bullet == [text |-> bullets[idx].text, similarity |-> similarity]
    IN [bullet |-> bullet, bullets |-> [bullets EXCEPT ![idx] = bullet]]

\* bullet = bullets[idx].copy(); bullet["similarity"] = ...: the copy is written,
\* the dict of the list is left as it is
scored(bullets, idx, similarity) ==
    [bullet |-> [text |-> bullets[idx].text, similarity |-> similarity],
     bullets |-> bullets]

\* the loop over ranked_indices: the results, and the list bullets after it
RECURSIVE results_loop(_, _, _)
results_loop(bullets, ranked, similarities) ==
    IF ranked = <<>> THEN [results |-> <<>>, bullets |-> bullets]
    ELSE LET idx == Head(ranked)
             s == scored(bullets, idx, similarities[idx])
             rest == results_loop(s.bullets, Tail(ranked), similarities)
         IN [results |-> <<s.bullet>> \o rest.results, bullets |-> rest.bullets]

\* the arguments need the embedding capability
needs_embedding(jd_analysis) ==
    /\ ~domain_raises(jd_analysis)
    /\ StripChars(query_text(jd_analysis), {":", " "}) # <<>>

\* match_bullets_to_jd.  top_n = 0 stands for None (and for 0): the default is
\* taken.  embedding is what embed_texts does when it is called, ties the order
\* argsort gives equal similarities.
match_bullets_to_jd(bullets, jd_analysis, top_n, embedding, ties) ==
    LET n == IF top_n = 0 THEN TOP_N_BULLETS ELSE top_n
    IN IF domain_raises(jd_analysis) THEN Raised(FALSE, bullets)
       ELSE IF ~needs_embedding(jd_analysis) THEN Returned(Take(bullets, n), FALSE, bullets)
       ELSE IF ~embedding.ok THEN Raised(TRUE, bullets)
       ELSE LET query_embedding == embedding.vec[Len(bullets) + 1]
                similarities ==
                    [i \in DOMAIN bullets |->
                        cosine_similarity(embedding.vec[i], query_embedding)]
                ranked == ranked_indices(similarities, n, ties)
                loop == results_loop(bullets, ranked, similarities)
            IN \* results[-1] in the log line raises on an empty list
               IF loop.results = <<>> THEN Raised(TRUE, loop.bullets)
               ELSE Returned(loop.results, TRUE, loop.bullets)

\* embed_texts.  A text is a number: bullet text i is i, the query text is 0.
batch_size == 50

QueryText == 0

\* the vector the embedding model gives for a text
Embedding(text) == [of |-> text]

\* model.get_embeddings(batch): one embedding for each text, in order
get_embeddings(chunk) == [k \in DOMAIN chunk |-> Embedding(chunk[k])]

\* texts[i : batch_size]
batch_at_from_start(texts, i) ==
    SubSeq(texts, i + 1, IF batch_size < Len(texts) THEN batch_size ELSE Len(texts))

\* texts[i : i + batch_size], i counting from 0
batch_at(texts, i) ==
    SubSeq(texts, i + 1, IF i + batch_size < Len(texts) THEN i + batch_size ELSE Len(texts))

\* bullet_texts + [query_text]
all_texts(n) == [i \in 1..n |-> i] \o <<QueryText>>

-----------------------------------------------------------------------------
(* The notifier: src/src/notifier.py *)

ReportLimit == 50       \* ORDER BY id DESC LIMIT 50
TopJobs == 10           \* jobs[:10]
ScoreThreshold == 60    \* score >= 0.6; a score is kept as 100 times its value

\* The payloads of an analyzed row, told apart by the score they hold:
\*   "dict"             {"match_score": 0.8, ...}
\*   "score_low"        {"match_score": 0.5, ...}
\*   "score_threshold"  {"match_score": 0.6, ...}
\*   "score_text"       {"match_score": "0.9", ...}
\*   "score_null"       {"match_score": null, ...}
\*   "nested"           {"match_evaluation": {"score": 0.7}, ...}
ScoredPayloads ==
    {"dict", "score_low", "score_threshold", "score_text", "score_null", "nested"}

\* The body of the try of the loop up to the comparison: json.loads, the score
\* under match_evaluation or match_score (0 without either), float() of a text.
\* A score that is None makes the comparison raise.
score_of(analysis) ==
    CASE analysis = "dict" -> [raised |-> FALSE, score |-> 80]
      [] analysis = "score_low" -> [raised |-> FALSE, score |-> 50]
      [] analysis = "score_threshold" -> [raised |-> FALSE, score |-> 60]
      [] analysis = "score_text" -> [raised |-> FALSE, score |-> 90]
      [] analysis = "score_null" -> [raised |-> TRUE, score |-> 0]
      [] analysis = "nested" -> [raised |-> FALSE, score |-> 70]
      [] OTHER -> [raised |-> FALSE, score |-> 0]

\* SELECT without its WHERE status='analyzed'
report_rows_any_status(db) == Take(Descending(Ids(db)), ReportLimit)

\* SELECT ... WHERE status='analyzed' ORDER BY id DESC LIMIT 50
report_rows(db) == Take(Descending({i \in Ids(db) : db[i].status = "analyzed"}), ReportLimit)

\* the loop over the rows: a row whose score raises is skipped (except:
\* continue), a row is kept when score >= 0.6
RECURSIVE high_score_jobs(_, _)
high_score_jobs(db, ids) ==
    IF ids = <<>> THEN <<>>
    ELSE LET row == db[Head(ids)]
             s == score_of(row.analysis)
         IN IF ~s.raised /\ s.score >= ScoreThreshold
            THEN <<[id |-> row.id, title |-> row.title, company |-> row.company,
                    score |-> s.score]>> \o high_score_jobs(db, Tail(ids))
            ELSE high_score_jobs(db, Tail(ids))

\* list.sort(key=score, reverse=True): descending, equal scores in the order
\* they had
RECURSIVE sort_by_score(_)
sort_by_score(items) ==
    IF items = <<>> THEN <<>>
    ELSE LET k == CHOOSE a \in DOMAIN items :
                      /\ \A b \in DOMAIN items : items[a].score >= items[b].score
                      /\ \A b \in 1..(a - 1) : items[b].score # items[a].score
         IN <<items[k]>> \o
            sort_by_score(SubSeq(items, 1, k - 1) \o SubSeq(items, k + 1, Len(items)))

\* the credentials of the sink, and what the POST does
Credentials == {"set", "no_token", "no_chat_id"}
PostOutcomes == {"200", "400", "exception"}

\* _send_message: the requests it makes; without credentials it returns before
\* the request, a status that is not 200 and an exception are logged
_send_message(text, credentials, post) ==
    IF credentials # "set" THEN <<>> ELSE <<text>>

\* send_daily_report: top_jobs, and the requests made
send_daily_report(db, credentials, post) ==
    LET found == high_score_jobs(db, report_rows(db))
        top_jobs == Take(sort_by_score(found), TopJobs)
    IN IF top_jobs = <<>>
       THEN [raised |-> FALSE, top_jobs |-> <<>>, requests |-> <<>>]
       ELSE [raised |-> FALSE, top_jobs |-> top_jobs,
             requests |-> _send_message([count |-> Len(found), jobs |-> top_jobs],
                                        credentials, post)]

-----------------------------------------------------------------------------
(* The process *)

\* the job_data dict the adapters build for posting p of the catalog
JobData ==
    [p \in DOMAIN Catalog |->
        [platform |-> Catalog[p].platform,
         title |-> Catalog[p].title,
         company |-> Catalog[p].company,
         linkedin_url |-> Catalog[p].linkedin_url,
         content_hash |-> compute_job_hash(Catalog[p].company, Catalog[p].title),
         jd_len |-> Catalog[p].jd_len,
         posted_at |-> Catalog[p].posted_at]]

Step(op, id, called, resp, result) ==
    [op |-> op, id |-> id, called |-> called, resp |-> resp, result |-> result]

Mark(op) == Step(op, 0, FALSE, "", "")

Run(stage, result) == [stage |-> stage, result |-> result]

\* no command of main.py is running
NoCommand == [verb |-> "none", stages |-> <<>>]

\* no pure function has been called
NoCall == [fn |-> "none"]

\* the loop of generate_resumes, with the client or with client = None
GenerateLoop == {"generate", "generate_noclient"}

StageOf(p) ==
    CASE p \in {"scrape_jobspy", "scrape_thehub"} -> "scrape"
      [] p \in {"filter_init", "filter"} -> "filter"
      [] p \in {"analyze_init", "analyze"} -> "analyze"
      [] p \in {"generate_init", "generate", "generate_noclient"} -> "generate"
      [] p \in {"backfill"} -> "backfill"
      [] OTHER -> "none"

Changed(old, new) == IF old = new THEN 0 ELSE 1

Init ==
    /\ jobs = <<>>
    /\ now = StartDay
    /\ pc = "idle"
    /\ batch = <<>>
    /\ cmd = NoCommand
    /\ call = NoCall
    /\ last = Mark("none")
    /\ prev = Run("none", "none")
    /\ changes = 0

\* the stage returns
Return(result) ==
    /\ prev' = Run(StageOf(pc), result)
    /\ pc' = "idle"
    /\ batch' = <<>>

(* main.py *)

\* the choices of the argument parser
Verbs ==
    {"scrape", "filter", "backfill", "analyze", "generate", "run", "status", "list", "report"}

\* the dict commands of main, each cmd_ function as the stage operations it
\* calls, in order; cmd_status, cmd_list and cmd_report only read the table
commands ==
    [verb \in Verbs \ {"generate"} |->
        CASE verb = "scrape" -> <<"scrape">>
          [] verb = "filter" -> <<"filter">>
          [] verb = "backfill" -> <<"backfill">>
          [] verb = "analyze" -> <<"analyze">>
          [] verb = "run" -> <<"scrape", "filter", "backfill">>
          [] OTHER -> <<>>]

\* commands[args.command](db): a verb the dict does not hold raises KeyError
main(verb) ==
    /\ pc = "idle" /\ cmd = NoCommand
    /\ IF verb \in DOMAIN commands
       THEN /\ cmd' = [verb |-> verb, stages |-> commands[verb]]
            /\ last' = Step("main", 0, TRUE, verb, "dispatched")
       ELSE /\ cmd' = NoCommand
            /\ last' = Step("main", 0, FALSE, verb, "KeyError")
    /\ UNCHANGED <<jobs, now, pc, batch, call, prev, changes>>

\* the cmd_ function calls its next stage operation
Called(stage) ==
    /\ pc = "idle"
    /\ cmd # NoCommand /\ cmd.stages # <<>> /\ Head(cmd.stages) = stage
    /\ cmd' = [cmd EXCEPT !.stages = Tail(@)]

\* the cmd_ function returns and the process exits
Exit ==
    /\ pc = "idle"
    /\ cmd # NoCommand /\ cmd.stages = <<>>
    /\ cmd' = NoCommand
    /\ last' = Step("exit", 0, FALSE, cmd.verb, "")
    /\ UNCHANGED <<jobs, now, pc, batch, call, prev, changes>>

(* scrape_all_platforms: scrape_jobspy, then scrape_thehub *)

ScrapeStart ==
    /\ Called("scrape")
    /\ pc' = "scrape_jobspy"
    /\ batch' = <<>>
    /\ changes' = 0
    /\ last' = Mark("scrape_start")
    /\ UNCHANGED <<jobs, now, prev, call>>

\* one row of an adapter's answer
ScrapeRow(p) ==
    /\ \/ pc = "scrape_jobspy" /\ Catalog[p].platform \in {"linkedin", "indeed"}
       \/ pc = "scrape_thehub" /\ Catalog[p].platform = "thehub"
    /\ IF Catalog[p].title = <<>> \/ Catalog[p].company = <<>>
       THEN /\ last' = Step("skip_row", p, FALSE, "", "")
            /\ UNCHANGED <<jobs, changes>>
       ELSE /\ Len(jobs) < MaxJobs \/ HashExists(jobs, JobData[p].content_hash)
            /\ LET r == insert_job(jobs, JobData[p])
               IN /\ jobs' = r.db
                  /\ changes' = changes + Changed(jobs, r.db)
                  /\ last' = Step("insert", p, FALSE, "",
                                  IF r.inserted THEN "inserted" ELSE "duplicate")
    /\ UNCHANGED <<now, pc, batch, prev, cmd, call>>

ScrapeNext ==
    /\ pc = "scrape_jobspy"
    /\ pc' = "scrape_thehub"
    /\ last' = Mark("scrape_next")
    /\ UNCHANGED <<jobs, now, batch, prev, changes, cmd, call>>

ScrapeEnd ==
    /\ pc = "scrape_thehub"
    /\ Return("done")
    /\ last' = Mark("scrape_end")
    /\ UNCHANGED <<jobs, now, changes, cmd, call>>

(* filter_jobs *)

FilterStart ==
    /\ Called("filter")
    /\ pc' = "filter_init"
    /\ batch' = get_unscored_jobs(jobs)
    /\ changes' = 0
    /\ last' = Mark("filter_start")
    /\ UNCHANGED <<jobs, now, prev, call>>

FilterNothing ==
    /\ pc = "filter_init" /\ batch = <<>>
    /\ Return("empty")
    /\ last' = Mark("filter_nothing")
    /\ UNCHANGED <<jobs, now, changes, cmd, call>>

\* the rules decide the first row before the client is built
FilterClientFailedAfterRules ==
    /\ pc = "filter_init" /\ batch # <<>>
    /\ Return("aborted")
    /\ last' = Mark("filter_client_failed")
    /\ LET row == jobs[Head(batch)]
       IN jobs' = IF _is_too_old(row.posted_at, now) \/ _is_obvious_irrelevant(row.title)
                  THEN filter_one(jobs, Head(batch), now, "fail").db
                  ELSE jobs
    /\ UNCHANGED <<now, changes, cmd, call>>

FilterClientFailed ==
    /\ pc = "filter_init" /\ batch # <<>>
    /\ Return("aborted")
    /\ last' = Mark("filter_client_failed")
    /\ UNCHANGED <<jobs, now, changes, cmd, call>>

FilterClientReady ==
    /\ pc = "filter_init" /\ batch # <<>>
    /\ pc' = "filter"
    /\ last' = Mark("filter_client_ready")
    /\ UNCHANGED <<jobs, now, batch, prev, changes, cmd, call>>

FilterStep(response) ==
    /\ pc = "filter" /\ batch # <<>>
    /\ LET id == Head(batch)
           r == filter_one(jobs, id, now, response)
       IN /\ jobs' = r.db
          /\ changes' = changes + Changed(jobs, r.db)
          /\ last' = Step("filter", id, r.called,
                          IF r.called THEN response ELSE "", r.db[id].relevance)
    /\ batch' = Tail(batch)
    /\ UNCHANGED <<now, pc, prev, cmd, call>>

FilterEnd ==
    /\ pc = "filter" /\ batch = <<>>
    /\ Return("done")
    /\ last' = Mark("filter_end")
    /\ UNCHANGED <<jobs, now, changes, cmd, call>>

(* analyze_pending_jobs *)

AnalyzeStart ==
    /\ Called("analyze")
    /\ pc' = "analyze_init"
    /\ batch' = pending_jobs(jobs)
    /\ changes' = 0
    /\ last' = Mark("analyze_start")
    /\ UNCHANGED <<jobs, now, prev, call>>

AnalyzeNothing ==
    /\ pc = "analyze_init" /\ batch = <<>>
    /\ Return("empty")
    /\ last' = Mark("analyze_nothing")
    /\ UNCHANGED <<jobs, now, changes, cmd, call>>

AnalyzeClientFailed ==
    /\ pc = "analyze_init" /\ batch # <<>>
    /\ Return("aborted")
    /\ last' = Mark("analyze_client_failed")
    /\ UNCHANGED <<jobs, now, changes, cmd, call>>

AnalyzeClientReady ==
    /\ pc = "analyze_init" /\ batch # <<>>
    /\ pc' = "analyze"
    /\ last' = Mark("analyze_client_ready")
    /\ UNCHANGED <<jobs, now, batch, prev, changes, cmd, call>>

AnalyzeStep(response) ==
    /\ pc = "analyze" /\ batch # <<>>
    /\ LET id == Head(batch)
           r == analyze_single_jd(response, jobs[id].jd_len)
           db == analyze_one(jobs, id, r.result)
       IN /\ jobs' = db
          /\ changes' = changes + Changed(jobs, db)
          /\ last' = Step("analyze", id, r.called,
                          IF r.called THEN response ELSE "", r.result)
    /\ batch' = Tail(batch)
    /\ UNCHANGED <<now, pc, prev, cmd, call>>

AnalyzeEnd ==
    /\ pc = "analyze" /\ batch = <<>>
    /\ Return("done")
    /\ last' = Mark("analyze_end")
    /\ UNCHANGED <<jobs, now, changes, cmd, call>>

(* generate_resumes *)

\* main.py has no command that calls generate_resumes: it is called directly
GenerateStart ==
    /\ pc = "idle" /\ cmd = NoCommand
    /\ pc' = "generate_init"
    /\ batch' = get_jobs_by_status(jobs, "analyzed")
    /\ changes' = 0
    /\ last' = Mark("generate_start")
    /\ UNCHANGED <<jobs, now, prev, cmd, call>>

GenerateNothing ==
    /\ pc = "generate_init" /\ batch = <<>>
    /\ Return("empty")
    /\ last' = Mark("generate_nothing")
    /\ UNCHANGED <<jobs, now, changes, cmd, call>>

\* the client is built, or it is not and client = None: the loop runs either way
GenerateReady(client) ==
    /\ pc = "generate_init" /\ batch # <<>>
    /\ pc' = IF client = "client_ok" THEN "generate" ELSE "generate_noclient"
    /\ last' = Step("generate_ready", 0, FALSE, client, "")
    /\ UNCHANGED <<jobs, now, batch, prev, changes, cmd, call>>

GenerateStep(render, typeset) ==
    /\ pc \in GenerateLoop /\ batch # <<>>
    /\ LET id == Head(batch)
           outcome == generate_single_resume(render, typeset)
           db == generate_one(jobs, id, outcome)
       IN /\ jobs' = db
          /\ changes' = changes + Changed(jobs, db)
          /\ last' = Step("generate", id, TRUE, Cause(render, typeset), outcome)
    /\ batch' = Tail(batch)
    /\ UNCHANGED <<now, pc, prev, cmd, call>>

\* generate_single_resume raises: nothing catches it, the process ends
GenerateRaise ==
    /\ pc \in GenerateLoop /\ batch # <<>>
    /\ Return("raised")
    /\ cmd' = NoCommand
    /\ last' = Step("generate", Head(batch), TRUE, "", "raise")
    /\ UNCHANGED <<jobs, now, changes, call>>

GenerateEnd ==
    /\ pc \in GenerateLoop /\ batch = <<>>
    /\ Return("done")
    /\ last' = Mark("generate_end")
    /\ UNCHANGED <<jobs, now, changes, cmd, call>>

(* backfill_linkedin_jd *)

BackfillStart ==
    /\ Called("backfill")
    /\ pc' = "backfill"
    /\ batch' = backfill_selection(jobs)
    /\ changes' = 0
    /\ last' = Mark("backfill_start")
    /\ UNCHANGED <<jobs, now, prev, call>>

BackfillStep(fetched) ==
    /\ pc = "backfill" /\ batch # <<>>
    /\ LET id == Head(batch)
           db == backfill_one(jobs, id, fetched)
       IN /\ jobs' = db
          /\ changes' = changes + Changed(jobs, db)
          /\ last' = Step("backfill", id, jobs[id].linkedin_url, "",
                          IF db = jobs THEN "kept" ELSE "filled")
    /\ batch' = Tail(batch)
    /\ UNCHANGED <<now, pc, prev, cmd, call>>

BackfillEnd ==
    /\ pc = "backfill" /\ batch = <<>>
    /\ Return("done")
    /\ last' = Mark("backfill_end")
    /\ UNCHANGED <<jobs, now, changes, cmd, call>>

(* the environment *)

\* days pass
Tick ==
    /\ now + TickDays <= MaxDay
    /\ now' = now + TickDays
    /\ UNCHANGED <<jobs, pc, batch, last, prev, changes, cmd, call>>

\* the process is killed between two writes
Kill ==
    /\ pc # "idle" \/ cmd # NoCommand
    /\ Return("killed")
    /\ cmd' = NoCommand
    /\ last' = Mark("kill")
    /\ UNCHANGED <<jobs, now, changes, call>>

Next ==
    \/ \E verb \in Verbs : main(verb)
    \/ Exit
    \/ ScrapeStart
    \/ \E p \in DOMAIN Catalog : ScrapeRow(p)
    \/ ScrapeNext
    \/ ScrapeEnd
    \/ FilterStart
    \/ FilterNothing
    \/ FilterClientFailed
    \/ FilterClientReady
    \/ \E response \in ClassifierResponses : FilterStep(response)
    \/ FilterEnd
    \/ AnalyzeStart
    \/ AnalyzeNothing
    \/ AnalyzeClientFailed
    \/ AnalyzeClientReady
    \/ \E response \in ExtractorResponses : AnalyzeStep(response)
    \/ AnalyzeEnd
    \/ GenerateStart
    \/ GenerateNothing
    \/ \E client \in {"client_ok", "client_none"} : GenerateReady(client)
    \/ \E render \in RenderOutcomes, typeset \in TypesetOutcomes :
           GenerateStep(render, typeset)
    \/ GenerateRaise
    \/ GenerateEnd
    \/ BackfillStart
    \/ \E fetched \in Fetches : BackfillStep(fetched)
    \/ BackfillEnd
    \/ Tick
    \/ Kill

Spec == Init /\ [][Next]_vars

\* the loop of filter_jobs over ids, the outcome of the classifier call for row
\* i being f[i]
RECURSIVE filter_rest(_, _, _, _)
filter_rest(db, ids, today, f) ==
    IF ids = <<>> THEN db
    ELSE filter_rest(filter_one(db, Head(ids), today, f[Head(ids)]).db, Tail(ids), today, f)

\* the table after the adapters delivered the postings ps, one after the other
RECURSIVE scraped(_)
scraped(ps) ==
    IF ps = <<>> THEN <<>>
    ELSE insert_job(scraped(SubSeq(ps, 1, Len(ps) - 1)), JobData[ps[Len(ps)]]).db

\* the tables a scrape leaves: postings with title and company, no hash twice
ScrapedTables ==
    {scraped(ps) : ps \in UNION {[1..n -> {p \in DOMAIN Catalog : Catalog[p].title # <<>>}] :
                                   n \in 0..MaxJobs}}

\* the tables a filter run on the first day makes of the scraped tables
FilteredTables(tables) ==
    UNION {{filter_rest(db, get_unscored_jobs(db), StartDay, f) :
               f \in [Ids(db) -> ClassifierResponses]} : db \in tables}

\* the answers from which analyze_single_jd returns an object
StructuredResults ==
    {r \in ExtractorResponses : ParseAnalysis(ExtractJsonText(r)) # NULL}

\* ... and those whose object has a key
ResultsWithKeys ==
    {r \in ExtractorResponses : Truthy(ParseAnalysis(ExtractJsonText(r)))}

\* The analyze and backfill commands over a table that was scraped and filtered
LiveInit ==
    /\ jobs \in FilteredTables(ScrapedTables)
    /\ now = StartDay
    /\ pc = "idle"
    /\ batch = <<>>
    /\ cmd = NoCommand
    /\ call = NoCall
    /\ last = Mark("none")
    /\ prev = Run("filter", "done")
    /\ changes = 0

LiveNext ==
    \/ \E verb \in {"analyze", "backfill"} : main(verb)
    \/ Exit
    \/ AnalyzeStart
    \/ AnalyzeNothing
    \/ AnalyzeClientFailed
    \/ AnalyzeClientReady
    \/ \E response \in ExtractorResponses : AnalyzeStep(response)
    \/ AnalyzeEnd
    \/ BackfillStart
    \/ \E fetched \in Fetches : BackfillStep(fetched)
    \/ BackfillEnd
    \/ Tick
    \/ Kill

\* Repeated analyze runs: the process does not stop for ever, the analyze
\* command is given again and again, its runs build their client and go through
\* their loop, and the extractor does not fail for ever on any one row: it
\* answers with an object again and again.
AnalyzeFairness ==
    /\ WF_vars(LiveNext)
    /\ SF_vars(main("analyze"))
    /\ SF_vars(AnalyzeStart)
    /\ SF_vars(AnalyzeClientReady)
    /\ \A n \in 1..MaxJobs :
           SF_vars(\E response \in ExtractorResponses :
                      AnalyzeStep(response) /\ Len(batch) = n)
    /\ \A i \in 1..MaxJobs :
           SF_vars(\E response \in StructuredResults :
                      AnalyzeStep(response) /\ batch # <<>> /\ Head(batch) = i)

LiveSpec == LiveInit /\ [][LiveNext]_vars /\ AnalyzeFairness

(* match_bullets_to_jd, called on the requirement records, bullet lists and
   embeddings below *)

SkillPython == <<"P", "y", "t", "h", "o", "n">>
SkillRAG == <<"R", "A", "G">>
SkillSQL == <<"S", "Q", "L">>
Fintech == <<"f", "i", "n", "t", "e", "c", "h">>
Games == <<"g", "a", "m", "e", "s">>
Cloud == <<"c", "l", "o", "u", "d">>
Blank == <<" ">>

\* requirement records: keys absent, empty or set; [""] is << <<>> >>
Analyses ==
    [hard_skills : {Val(<<>>), Val(<<SkillPython, SkillRAG>>)},
     required_skills : {Absent, Val(<<SkillSQL>>)},
     skills : {Absent, Val(<< <<>> >>)},
     company_domain : {Absent, Val(Blank)},
     industry : {Absent, Val(Games)},
     description_keywords : {Absent, Val(<<>>), Val(<< <<>> >>), Val(<<Cloud>>)}]

\* load_profile_bullets: bullet i is the dict whose text is i
Bullets(n) == [i \in 1..n |-> [text |-> i]]

\* the orders of the indices 1..n
Orders(n) == {o \in [1..n -> 1..n] : \A i, j \in 1..n : o[i] = o[j] => i = j}

\* the vectors of the query
QueryVectors == {<<1, 0>>, <<0, 0>>}

\* what embed_texts may do for n bullets and the query: it raises, or it
\* returns the vectors of the bullets and, last, the vector of the query
Embeddings(n) ==
    {EmbedRaised} \cup
    {Embedded(vec \o <<q>>) : vec \in [1..n -> Vectors], q \in QueryVectors}

\* one call in a behaviour
Match ==
    /\ call = NoCall
    /\ \E n \in 0..MaxBullets, jd_analysis \in Analyses, top_n \in 0..MaxTopN :
         \E embedding \in IF needs_embedding(jd_analysis) THEN Embeddings(n) ELSE {NotCalled} :
           \E ties \in IF embedding.ok THEN Orders(n) ELSE {<<>>} :
             call' = [fn |-> "match_bullets_to_jd",
                      bullets |-> Bullets(n),
                      jd_analysis |-> jd_analysis,
                      top_n |-> top_n,
                      embedding |-> embedding,
                      ties |-> ties,
                      result |-> match_bullets_to_jd(Bullets(n), jd_analysis, top_n,
                                                     embedding, ties),
                      again |-> <<>>]
    /\ UNCHANGED <<jobs, now, pc, batch, cmd, last, prev, changes>>

\* The caller calls once more with the list it holds, the same record and
\* top_n; the embedding capability gives the same vectors and the sort, run on
\* the same array, the same order.  again holds the result of this call.
MatchAgain ==
    /\ call.fn = "match_bullets_to_jd" /\ call.again = <<>>
    /\ call' = [call EXCEPT !.again =
                   <<match_bullets_to_jd(call.result.bullets, call.jd_analysis,
                                         call.top_n, call.embedding, call.ties)>>]
    /\ UNCHANGED <<jobs, now, pc, batch, cmd, last, prev, changes>>

MatchNext == Match \/ MatchAgain

MatchSpec == Init /\ [][MatchNext]_vars

(* send_daily_report, called on the tables below *)

\* what the stages can have made of a stored row
RowProgress ==
    {[status |-> "new", relevance |-> NULL, analysis |-> NULL, resume_path |-> NULL],
     [status |-> "new", relevance |-> "relevant", analysis |-> NULL, resume_path |-> NULL],
     [status |-> "filtered", relevance |-> "irrelevant", analysis |-> NULL,
      resume_path |-> NULL],
     [status |-> "generated", relevance |-> "relevant", analysis |-> "dict",
      resume_path |-> "pdf"]}
    \cup {[status |-> "analyzed", relevance |-> "relevant", analysis |-> a,
           resume_path |-> NULL] : a \in ScoredPayloads}

Progressed(row, g) ==
    [row EXCEPT !.status = g.status, !.relevance = g.relevance,
                !.analysis = g.analysis, !.resume_path = g.resume_path]

\* the tables the stages make of the scraped tables: a row whose title the
\* rule excludes is never accepted
ReportTables(tables) ==
    UNION {{[i \in Ids(db) |-> Progressed(db[i], g[i])] :
               g \in {h \in [Ids(db) -> RowProgress] :
                         \A i \in Ids(db) :
                             _is_obvious_irrelevant(db[i].title) =>
                                 h[i].relevance # "relevant"}} :
           db \in tables}

ReportInit ==
    /\ jobs \in ReportTables(ScrapedTables)
    /\ now = StartDay
    /\ pc = "idle"
    /\ batch = <<>>
    /\ cmd = NoCommand
    /\ call = NoCall
    /\ last = Mark("none")
    /\ prev = Run("analyze", "done")
    /\ changes = 0

\* cmd_report and cmd_analyze call send_daily_report; it reads the table
Report ==
    /\ call = NoCall
    /\ \E credentials \in Credentials, post \in PostOutcomes :
           call' = [fn |-> "send_daily_report",
                    credentials |-> credentials,
                    post |-> post,
                    result |-> send_daily_report(jobs, credentials, post)]
    /\ UNCHANGED <<jobs, now, pc, batch, cmd, last, prev, changes>>

ReportNext == Report

ReportSpec == ReportInit /\ [][ReportNext]_vars

(* _check_relevance_with_llm, called on the titles below *)

Data == <<"D", "a", "t", "a", " ">>
Year == <<" ", "2", "0", "2", "6">>
InternUpper == <<"I", "N", "T", "E", "R", "N">>
JuniorCapital == <<"J", "u", "n", "i", "o", "r">>
Engineer == <<"e", "n", "g", "i", "n", "e", "e", "r">>
Developer == <<"D", "e", "v", "e", "l", "o", "p", "e", "r">>

\* titles with and without a term of the inclusion vocabulary, none of which
\* the title rule excludes
FallbackTitles ==
    {t \in {prefix \o core \o suffix :
               prefix \in {<<>>, Data},
               core \in {TITLE_INCLUDE_KEYWORDS[k] : k \in DOMAIN TITLE_INCLUDE_KEYWORDS}
                        \cup {InternUpper, JuniorCapital, Engineer, Developer},
               suffix \in {<<>>, Year}} :
        ~_is_obvious_irrelevant(t)}

\* one call in a behaviour
Classify ==
    /\ call = NoCall
    /\ \E title \in FallbackTitles, response \in ClassifierResponses :
           call' = [fn |-> "_check_relevance_with_llm",
                    title |-> title,
                    response |-> response,
                    result |-> _check_relevance_with_llm(response, title)]
    /\ UNCHANGED <<jobs, now, pc, batch, cmd, last, prev, changes>>

ClassifyNext == Classify

ClassifySpec == Init /\ [][ClassifyNext]_vars

(* embed_texts, called by match_bullets_to_jd on the bullet texts and the query *)

EmbedCall ==
    /\ call = NoCall
    /\ \E n \in 0..MaxTexts :
           call' = [fn |-> "embed_texts",
                    texts |-> all_texts(n),
                    i |-> 0,
                    all_embeddings |-> <<>>,
                    requests |-> <<>>,
                    at |-> "loop"]
    /\ UNCHANGED <<jobs, now, pc, batch, cmd, last, prev, changes>>

InEmbedLoop == call.fn = "embed_texts" /\ call.at = "loop"

\* one turn of the loop: the request for the batch at i, its embeddings appended
EmbedRequest ==
    /\ InEmbedLoop /\ call.i < Len(call.texts)
    /\ LET chunk == batch_at(call.texts, call.i)
       IN call' = [call EXCEPT !.requests = Append(@, chunk),
                               !.all_embeddings = @ \o get_embeddings(chunk),
                               !.i = @ + batch_size]
    /\ UNCHANGED <<jobs, now, pc, batch, cmd, last, prev, changes>>

\* the request raises: the exception leaves embed_texts
EmbedRaise ==
    /\ InEmbedLoop /\ call.i < Len(call.texts)
    /\ call' = [call EXCEPT !.requests = Append(@, batch_at(call.texts, call.i)),
                            !.at = "raised"]
    /\ UNCHANGED <<jobs, now, pc, batch, cmd, last, prev, changes>>

\* return np.array(all_embeddings)
EmbedReturn ==
    /\ InEmbedLoop /\ call.i >= Len(call.texts)
    /\ call' = [call EXCEPT !.at = "returned"]
    /\ UNCHANGED <<jobs, now, pc, batch, cmd, last, prev, changes>>

EmbedNext == EmbedCall \/ EmbedRequest \/ EmbedRaise \/ EmbedReturn

EmbedSpec == Init /\ [][EmbedNext]_vars

(* escape_latex, called by the resume builder on the texts below *)

\* the ten characters escape_latex looks for, a letter and a blank
EscapeAlphabet ==
    {replacements[k][1] : k \in DOMAIN replacements} \cup {"a", " "}

\* the texts of at most n characters over an alphabet
TextsOver(alphabet, n) ==
    UNION {[1..len -> alphabet] : len \in 0..n}

Escape ==
    /\ call = NoCall
    /\ \E text \in TextsOver(EscapeAlphabet, MaxTextLen) :
           call' = [fn |-> "escape_latex",
                    text |-> text,
                    result |-> escape_latex(text)]
    /\ UNCHANGED <<jobs, now, pc, batch, cmd, last, prev, changes>>

EscapeNext == Escape

EscapeSpec == Init /\ [][EscapeNext]_vars

(* compute_job_hash, called by the ingestion loop on two (company, title) pairs *)

\* an upper-case letter, a lower-case letter, a blank and a punctuation character
NormalizeAlphabet == {"A", "c", " ", "."}

Hash ==
    /\ call = NoCall
    /\ \E company \in TextsOver(NormalizeAlphabet, MaxTextLen),
          other_company \in TextsOver(NormalizeAlphabet, MaxTextLen),
          title \in {PythonIntern, PythonInternLower},
          other_title \in {PythonIntern, PythonInternLower} :
           call' = [fn |-> "compute_job_hash",
                    company |-> company,
                    title |-> title,
                    other_company |-> other_company,
                    other_title |-> other_title,
                    normalized |-> _normalize(company),
                    renormalized |-> _normalize(_normalize(company)),
                    hash |-> compute_job_hash(company, title),
                    other_hash |-> compute_job_hash(other_company, other_title)]
    /\ UNCHANGED <<jobs, now, pc, batch, cmd, last, prev, changes>>

HashNext == Hash

HashSpec == Init /\ [][HashNext]_vars

-----------------------------------------------------------------------------
(* The claims *)

Rows == Ids(jobs)

Unscored(row) == row.relevance = NULL \/ row.relevance = "unscored"

\* C1: after any sequence of ingest operations no two stored rows share a dedup
\* hash, no two stored rows have the same (company, title) after normalization
\* ("Acme Inc." and "acme inc" are never both stored), and a posting handed to
\* insert_job is stored exactly once.
C1_DedupUnique ==
    /\ \A i, j \in Rows : i # j => jobs[i].content_hash # jobs[j].content_hash
    /\ \A i, j \in Rows : i # j =>
           ~ /\ _normalize(jobs[i].company) = _normalize(jobs[j].company)
             /\ _normalize(jobs[i].title) = _normalize(jobs[j].title)
    /\ Cardinality({i \in Rows : jobs[i].company \in {AcmeIncDot, AcmeLower}}) <= 1
    /\ last.op = "insert" =>
           Cardinality({i \in Rows :
               jobs[i].content_hash = JobData[last.id].content_hash}) = 1

\* "acme inc" was handed to insert_job while "Acme Inc." was stored
C1_Witness ==
    /\ last.op = "insert"
    /\ Catalog[last.id].company = AcmeLower
    /\ \E i \in Rows : jobs[i].company = AcmeIncDot

\* a step of the ingestion loop that called insert_job
InsertStep == last'.op = "insert" /\ now' = now

\* C2: insert_job on a posting whose hash is stored returns False, leaves every
\* row as it was, and the ingestion loop goes on (the process stays in the
\* stage), whatever platform the duplicate comes from.
C2_DuplicateInsertIsNoOp ==
    [][(InsertStep /\ HashExists(jobs, JobData[last'.id].content_hash)) =>
           /\ last'.result = "duplicate"
           /\ jobs' = jobs
           /\ pc' = pc]_vars

\* a duplicate from another platform met a row that had already moved on
C2_Witness ==
    /\ last.op = "insert" /\ last.result = "duplicate"
    /\ pc \in {"scrape_jobspy", "scrape_thehub"}
    /\ \E i \in Rows :
           /\ jobs[i].content_hash = JobData[last.id].content_hash
           /\ jobs[i].platform # Catalog[last.id].platform
           /\ jobs[i].status = "analyzed"

StatusMoves == {<<"new", "analyzed">>, <<"analyzed", "generated">>, <<"new", "filtered">>}

\* C3: in every step of every stage the status of every row stays or moves
\* new -> analyzed, analyzed -> generated or new -> filtered, and no row is lost.
C3_StatusNeverRegresses ==
    [][/\ Len(jobs') >= Len(jobs)
       /\ \A i \in Rows :
              \/ jobs'[i].status = jobs[i].status
              \/ <<jobs[i].status, jobs'[i].status>> \in StatusMoves]_vars

\* one row went new -> analyzed -> generated, another new -> filtered
C3_Witness ==
    /\ \E i \in Rows : jobs[i].status = "generated"
    /\ \E i \in Rows : jobs[i].status = "filtered"

\* C4: an irrelevant row has status filtered, an analyzed or generated row is
\* relevant, and the row the analyze stage handed to the extractor is relevant.
C4_IrrelevantNeverAnalyzed ==
    /\ \A i \in Rows : jobs[i].relevance = "irrelevant" => jobs[i].status = "filtered"
    /\ \A i \in Rows :
           jobs[i].status \in {"analyzed", "generated"} => jobs[i].relevance = "relevant"
    /\ last.op = "analyze" => jobs[last.id].relevance = "relevant"

\* the extractor was called in a table that holds an irrelevant row
C4_Witness ==
    /\ last.op = "analyze" /\ last.called
    /\ \E i \in Rows : jobs[i].relevance = "irrelevant"

\* the answers of the extractor that are a failure: the call raised, no text,
\* text that is no JSON, JSON that is no object
ExtractorFailures ==
    {"raise", "empty", "garbage", "scalar", "empty_list", "list_scalar"}

\* C5: after the extractor failed for a row the row has status new (not skipped)
\* and relevance relevant, and the next analyze run selects it again.
C5_FailedAnalysisRetryable ==
    (last.op = "analyze" /\ last.called /\ last.resp \in ExtractorFailures) =>
        /\ last.result = NULL
        /\ jobs[last.id].status = "new"
        /\ jobs[last.id].relevance = "relevant"
        /\ jobs[last.id].analysis = NULL
        /\ \E k \in DOMAIN pending_jobs(jobs) : pending_jobs(jobs)[k] = last.id

\* the answer was a list that holds no object
C5_Witness ==
    /\ last.op = "analyze" /\ last.called /\ last.resp = "list_scalar"
    /\ prev.stage = "analyze"

\* C6: for a row whose description is missing or shorter than 50 characters the
\* extractor returns nothing without calling the model, and the row stays new.
C6_ShortDescriptionNotSent ==
    (last.op = "analyze" /\ jobs[last.id].jd_len < MinJdLen) =>
        /\ ~last.called
        /\ last.result = NULL
        /\ jobs[last.id].status = "new"
        /\ jobs[last.id].relevance = "relevant"

\* a relevant row without any description went through the analyze stage
C6_Witness ==
    /\ last.op = "analyze"
    /\ jobs[last.id].jd_len = 0
    /\ jobs[last.id].status = "new"

\* C7: an analyzed row has a payload; a generated row has an artifact path and a
\* payload; also in the states a killed run leaves.
C7_StatusWithPayload ==
    \A i \in Rows :
        /\ jobs[i].status = "analyzed" => jobs[i].analysis # NULL
        /\ jobs[i].status = "generated" =>
               jobs[i].resume_path # NULL /\ jobs[i].analysis # NULL

\* a generate run was killed after its first row
C7_Witness ==
    /\ prev = Run("generate", "killed")
    /\ \E i \in Rows : jobs[i].status = "generated"
    /\ \E i \in Rows : jobs[i].status = "analyzed"

InFilterRun == pc \in {"filter_init", "filter"}

\* C8 as stated: a filter run that follows a filter run changes no row.
C8_SecondFilterRunChangesNothing ==
    (InFilterRun /\ prev.stage = "filter" /\ prev.result # "killed") => changes = 0

\* C8, amended: a filter run that follows a filter run which built its client
\* and returned (or had selected nothing) selects no row and changes none.
C8_SecondFilterRunAfterCompleteRun ==
    (InFilterRun /\ prev.stage = "filter" /\ prev.result \in {"done", "empty"}) =>
        /\ batch = <<>>
        /\ changes = 0
        /\ \A i \in Rows : ~Unscored(jobs[i])

\* the second of two filter runs over a table with rows
C8_Witness ==
    /\ pc = "filter_init"
    /\ prev = Run("filter", "done")
    /\ Len(jobs) = MaxJobs

\* C9: filter changes only rows that are unscored, analyze only rows that are
\* new and relevant, generate only rows that are analyzed.
C9_StagesChangeOnlyPrerequisiteRows ==
    [][\A i \in Rows :
           jobs'[i] # jobs[i] =>
               CASE StageOf(pc) = "filter" -> Unscored(jobs[i])
                 [] StageOf(pc) = "analyze" ->
                        jobs[i].status = "new" /\ jobs[i].relevance = "relevant"
                 [] StageOf(pc) = "generate" -> jobs[i].status = "analyzed"
                 [] OTHER -> TRUE]_vars

\* a second generate run finished the row the first one had left, beside a row
\* that was generated already
C9_Witness ==
    /\ last.op = "generate" /\ last.result = "pdf"
    /\ prev.stage = "generate"
    /\ \E i \in Rows : i # last.id /\ jobs[i].status = "generated"

\* the titles of the catalog that hold an exclusion term, compared without
\* regard to case
TitlesWithExclusionTerm ==
    {t \in {Catalog[p].title : p \in DOMAIN Catalog} :
        \E k \in DOMAIN TITLE_EXCLUDE_KEYWORDS :
            Contains(Lower(t), TITLE_EXCLUDE_KEYWORDS[k])}

HasExclusionTerm(title) == title \in TitlesWithExclusionTerm

\* C10: a row that passes the age check and whose title holds an exclusion term
\* is tagged irrelevant and filtered without the classifier being asked; no row
\* with such a title is ever accepted, and none reaches the extractor.
C10_ExcludedTitleFilteredByRule ==
    /\ (/\ last.op = "filter"
        /\ ~_is_too_old(jobs[last.id].posted_at, now)
        /\ HasExclusionTerm(jobs[last.id].title)) =>
           /\ ~last.called
           /\ jobs[last.id].relevance = "irrelevant"
           /\ jobs[last.id].status = "filtered"
    /\ \A i \in Rows :
           HasExclusionTerm(jobs[i].title) =>
               /\ jobs[i].relevance # "relevant"
               /\ jobs[i].status \in {"new", "filtered"}
               /\ jobs[i].analysis = NULL
    /\ last.op = "analyze" => ~HasExclusionTerm(jobs[last.id].title)

\* "SALES Intern", which the fallback would accept, was excluded by the rule
C10_Witness ==
    /\ last.op = "filter"
    /\ jobs[last.id].title = SalesIntern
    /\ ~_is_too_old(jobs[last.id].posted_at, now)
    /\ jobs[last.id].status = "filtered"

\* a turn of the loop of filter_jobs: the row at the head of the batch is decided
FilterTurn == pc = "filter" /\ pc' = "filter" /\ batch # <<>> /\ batch' = Tail(batch)

\* C11: in the filter a row whose timestamp is older than the max age is tagged
\* irrelevant with status filtered and the classifier is not asked, whatever its
\* title; a row whose timestamp is missing or unparsable is never disqualified
\* by age: the title rule decides it, or else the classifier is asked and its
\* verdict (or the fallback) decides it.
C11_AgeCheckFirstAndFailOpen ==
    [][FilterTurn =>
        LET id == Head(batch)
            row == jobs[id]
        IN /\ (row.posted_at.kind = "day" /\ row.posted_at.day < now - MAX_JOB_AGE_DAYS) =>
                  /\ jobs'[id].relevance = "irrelevant"
                  /\ jobs'[id].status = "filtered"
                  /\ ~last'.called
           /\ row.posted_at.kind \in {"none", "bad"} =>
                  IF HasExclusionTerm(row.title)
                  THEN ~last'.called /\ jobs'[id].relevance = "irrelevant"
                  ELSE /\ last'.called
                       /\ last'.resp \in ClassifierResponses
                       /\ (jobs'[id].relevance = "relevant") =
                              _check_relevance_with_llm(last'.resp, row.title).is_relevant
                       /\ jobs'[id].relevance = "relevant" => jobs'[id].status = "new"]_vars

\* an old "Python Intern" was filtered by age beside a posting without a
\* timestamp that the classifier had accepted on the same day
C11_Witness ==
    /\ last.op = "filter" /\ ~last.called
    /\ jobs[last.id].posted_at.kind = "day"
    /\ jobs[last.id].posted_at.day < now - MAX_JOB_AGE_DAYS
    /\ ~HasExclusionTerm(jobs[last.id].title)
    /\ jobs[last.id].status = "filtered"
    /\ \E i \in Rows :
           /\ jobs[i].posted_at.kind = "none"
           /\ jobs[i].relevance = "relevant"

\* C12: when the classifier call fails for a row during the filter stage, the
\* status of the row is left as it was (new, not a terminal status) and the
\* batch goes on with the next row.
C12_ClassifierFailureLeavesStatus ==
    (last.op = "filter" /\ last.called /\ last.resp = "fail") =>
        /\ jobs[last.id].status = "new"
        /\ pc = "filter"

ClientFailures == {"filter_client_failed", "analyze_client_failed"}

\* C13 as stated: when the client of a stage cannot be built the stage (filter,
\* analyze, generate) ends before it processes a row and no row is changed.
C13_ClientFailureAbortsStage ==
    /\ last.op \in ClientFailures => pc = "idle" /\ changes = 0
    /\ pc = "generate_noclient" => changes = 0 /\ last.op # "generate"

\* C13, amended: filter and analyze return at once when the client cannot be
\* built, with every row as it was (also a row the rules alone would decide);
\* generate goes into its loop with all the rows it selected.
C13_FilterAndAnalyzeAbort ==
    [][/\ (pc \in {"filter_init", "analyze_init"} /\ last'.op \in ClientFailures) =>
              /\ jobs' = jobs
              /\ pc' = "idle"
              /\ changes' = 0
              /\ prev' = Run(StageOf(pc), "aborted")
       /\ (pc = "generate_init" /\ pc' = "generate_noclient") =>
              /\ jobs' = jobs
              /\ batch' = batch /\ batch # <<>>]_vars

\* the filter aborted over a row that the title rule alone would have decided
C13_Witness ==
    /\ last.op = "filter_client_failed"
    /\ prev = Run("filter", "aborted")
    /\ \E i \in Rows : Unscored(jobs[i]) /\ HasExclusionTerm(jobs[i].title)

\* C14: in every stage batch a failure on one row (classifier, extractor,
\* embedding, decoding of the payload, typesetting) leaves the process in the
\* loop of the stage with the remaining rows, and no stage run ends with an
\* exception.
C14_RecordFailureNeverStopsBatch ==
    /\ (last.op = "filter" /\ last.resp = "fail") => pc = "filter"
    /\ (last.op = "analyze" /\ last.resp \in ExtractorFailures) => pc = "analyze"
    /\ (last.op = "generate" /\ last.result \in {"none", "raise"}) => pc \in GenerateLoop
    /\ prev.result # "raised"

\* The loops of analyze_pending_jobs and generate_resumes over the ids a run
\* has still to process, the outcome of the external call for row i being f[i].
RECURSIVE analyze_rest(_, _, _)
analyze_rest(db, ids, f) ==
    IF ids = <<>> THEN db
    ELSE LET id == Head(ids)
             r == analyze_single_jd(f[id], db[id].jd_len)
         IN analyze_rest(analyze_one(db, id, r.result), Tail(ids), f)

RECURSIVE generate_rest(_, _, _)
generate_rest(db, ids, f) ==
    IF ids = <<>> \/ f[Head(ids)] = "raise" THEN db
    ELSE generate_rest(generate_one(db, Head(ids), f[Head(ids)]), Tail(ids), f)

Range(seq) == {seq[k] : k \in DOMAIN seq}

\* the days a later run may start on
LaterDays == {d \in {now, now + TickDays} : d <= MaxDay}

\* the outcomes with which a row that was selected again is the row a run has
\* processed without success: the same outcome fails again
SameOutcomes(outcomes, ids, Fails(_, _)) ==
    {f \in [Rows -> outcomes] : \A i \in Rows : i \notin Range(ids) => Fails(i, f[i])}

AnalyzeFails(i, response) == ~Truthy(analyze_single_jd(response, jobs[i].jd_len).result)

GenerateFails(i, outcome) == outcome = "none"

NoOutcome(i, outcome) == TRUE

\* a run killed now and run again on day d ends with the table that the run
\* would have ended with had it gone on, the outcomes being the same
ResumedRunSameAsUninterrupted(d) ==
    /\ pc = "filter" =>
           \A f \in SameOutcomes(ClassifierResponses, batch, NoOutcome) :
               filter_rest(jobs, get_unscored_jobs(jobs), d, f) = filter_rest(jobs, batch, now, f)
    /\ pc = "analyze" =>
           \A f \in SameOutcomes(ExtractorResponses, batch, AnalyzeFails) :
               analyze_rest(jobs, pending_jobs(jobs), f) = analyze_rest(jobs, batch, f)
    /\ pc \in GenerateLoop =>
           \A f \in SameOutcomes(GenerateOutcomes, batch, GenerateFails) :
               generate_rest(jobs, get_jobs_by_status(jobs, "analyzed"), f)
                   = generate_rest(jobs, batch, f)

\* the rows a killed run has not processed are selected by the next run
UnprocessedStillSelected ==
    /\ pc = "filter" => Range(batch) \subseteq Range(get_unscored_jobs(jobs))
    /\ pc = "analyze" => Range(batch) \subseteq Range(pending_jobs(jobs))
    /\ pc \in GenerateLoop => Range(batch) \subseteq Range(get_jobs_by_status(jobs, "analyzed"))

\* a turn of a stage loop changes the row at the head of the batch and no other;
\* the kill changes no row
KillKeepsCommitted ==
    /\ (pc \in {"filter", "analyze"} \cup GenerateLoop /\ batch # <<>>) =>
           \A i \in Rows : i # Head(batch) => jobs'[i] = jobs[i]
    /\ (pc # "idle" /\ prev'.result = "killed" /\ prev' # prev) => jobs' = jobs
    /\ (pc # "idle" /\ pc' = "idle") => jobs' = jobs

\* C15 as stated: a run killed after k of its n rows leaves the k rows as
\* committed and the other n-k as they were, and a later run of the stage ends
\* with the table of the uninterrupted run, the outcomes of the external calls
\* being the same.
C15_KilledRunResumable ==
    /\ UnprocessedStillSelected
    /\ \A d \in LaterDays : ResumedRunSameAsUninterrupted(d)

\* the age verdicts of the rows still to filter are the same on day d
SameAgeVerdicts(d) ==
    pc = "filter" =>
        \A i \in Range(batch) :
            _is_too_old(jobs[i].posted_at, d) = _is_too_old(jobs[i].posted_at, now)

\* C15, amended: ... provided the later run finds the same age verdicts for the
\* rows it has still to filter.
C15_KilledRunResumableSameAge ==
    /\ [](/\ UnprocessedStillSelected
          /\ \A d \in LaterDays : SameAgeVerdicts(d) => ResumedRunSameAsUninterrupted(d))
    /\ [][KillKeepsCommitted]_vars

\* the run after a killed analyze run works on the row the killed run had left,
\* beside the row the killed run had analyzed
C15_Witness ==
    /\ prev = Run("analyze", "killed")
    /\ pc = "analyze"
    /\ last.op = "analyze" /\ last.called
    /\ \E i \in Rows : i # last.id /\ jobs[i].status = "analyzed"

\* row i waits for the analyze stage with a description long enough
Eligible(i) ==
    /\ i \in Rows
    /\ jobs[i].status = "new" /\ jobs[i].relevance = "relevant"
    /\ ~JdTooShort(jobs[i].jd_len)

Analyzed(i) == i \in Rows /\ jobs[i].status = "analyzed"

\* every analyze run selects every row that waits for it
EveryRunSelectsEligible ==
    pc = "analyze_init" => \A i \in Rows : Eligible(i) => i \in Range(batch)

\* C16 as stated: under repeated analyze runs whose client is built and in
\* which the extractor answers with a structured result in the end, every row
\* that is new, relevant and has a description long enough is selected by every
\* analyze run until it is analyzed, and it is analyzed in the end.
C16_EligibleEventuallyAnalyzed ==
    /\ []EveryRunSelectsEligible
    /\ \A i \in 1..MaxJobs : Eligible(i) ~> Analyzed(i)

\* C16, amended: ... in which the extractor answers with an object that has at
\* least one key in the end ...
C16_EligibleEventuallyAnalyzedWithKeys ==
    /\ []EveryRunSelectsEligible
    /\ \A i \in 1..MaxJobs :
           SF_vars(\E response \in ResultsWithKeys :
                      AnalyzeStep(response) /\ batch # <<>> /\ Head(batch) = i)
               => (Eligible(i) ~> Analyzed(i))

\* a row was tried again by a run that followed a complete analyze run, and the
\* extractor failed again
C16_Witness ==
    /\ prev = Run("analyze", "done")
    /\ last.op = "analyze" /\ last.called /\ last.resp \in ExtractorFailures
    /\ Eligible(last.id)

\* C17: the run command executes the stages scrape, filter, backfill and
\* analyze, in that order, each stage returning before the next starts: a stage
\* of the command follows the return of the stage before it, and the command
\* exits after the analyze stage.
C17_RunVerbStagesInOrder ==
    /\ (cmd.verb = "run" /\ StageOf(pc) = "filter") => prev.stage = "scrape"
    /\ (cmd.verb = "run" /\ StageOf(pc) = "backfill") => prev.stage = "filter"
    /\ (cmd.verb = "run" /\ StageOf(pc) = "analyze") => prev.stage = "backfill"
    /\ (last.op = "exit" /\ last.resp = "run") => prev.stage = "analyze"

\* C18: every verb the parser accepts is dispatched to its command, which runs
\* its stage and exits; the generate verb runs the generate stage.
C18_EveryVerbDispatched ==
    /\ last.op = "main" =>
           /\ last.resp \in Verbs
           /\ last.result = "dispatched"
           /\ cmd.verb = last.resp
           /\ last.resp = "generate" => cmd.stages = <<"generate">>
    /\ (cmd # NoCommand /\ pc # "idle") => cmd.verb \in {StageOf(pc), "run"}

MatchCalled == call.fn = "match_bullets_to_jd"

\* a key that is absent or holds an empty value
EmptyKey(x) == x.st = "absent" \/ (x.st = "val" /\ x.val = <<>>)

\* the record has no skill and no domain under any alias; its list of
\* description keywords is absent, empty or holds the empty text
NoSignal(jd_analysis) ==
    /\ EmptyKey(jd_analysis.hard_skills)
    /\ EmptyKey(jd_analysis.required_skills)
    /\ EmptyKey(jd_analysis.skills)
    /\ EmptyKey(jd_analysis.company_domain)
    /\ EmptyKey(jd_analysis.industry)
    /\ \/ EmptyKey(jd_analysis.description_keywords)
       \/ jd_analysis.description_keywords = Val(<< <<>> >>)

\* the top_n in force
TopN == IF call.top_n = 0 THEN TOP_N_BULLETS ELSE call.top_n

Min(a, b) == IF a < b THEN a ELSE b

\* C19: for a requirement record with empty skills and empty domain under every
\* alias (an empty list of description keywords included) match_bullets_to_jd
\* does not raise, does not call the embedding capability and returns the
\* first top_n bullets in their order, without a similarity.
C19_NoSignalDegrades ==
    (MatchCalled /\ NoSignal(call.jd_analysis)) =>
        /\ ~call.result.raised
        /\ ~call.result.embedded
        /\ call.result.value = SubSeq(call.bullets, 1, Min(TopN, Len(call.bullets)))
        /\ \A k \in DOMAIN call.result.value :
               "similarity" \notin DOMAIN call.result.value[k]

\* the similarity of bullet i of the call to the query of the call
SimilarityOf(i) ==
    cosine_similarity(call.embedding.vec[i], call.embedding.vec[Len(call.bullets) + 1])

\* the texts of the bullets the call returned
ReturnedTexts == {call.result.value[k].text : k \in DOMAIN call.result.value}

\* the call had a query that is not empty, bullets, and got its embeddings
Ranked ==
    /\ MatchCalled
    /\ ~domain_raises(call.jd_analysis)
    /\ StripChars(query_text(call.jd_analysis), {":", " "}) # <<>>
    /\ call.embedding.ok
    /\ call.bullets # <<>>

\* C20: with a query that is not empty (and bullets, and embeddings that were
\* delivered) match_bullets_to_jd returns min(top_n, number of bullets)
\* different bullets, each with its own similarity to the query, in descending
\* order of similarity, and no bullet left out has a higher similarity than a
\* bullet returned.
C20_TopNByDescendingSimilarity ==
    Ranked =>
        LET value == call.result.value
        IN /\ ~call.result.raised
           /\ Len(value) = Min(TopN, Len(call.bullets))
           /\ Cardinality(ReturnedTexts) = Len(value)
           /\ \A k \in DOMAIN value :
                  /\ value[k].text \in DOMAIN call.bullets
                  /\ value[k].similarity = SimilarityOf(value[k].text)
           /\ \A k \in DOMAIN value :
                  k < Len(value) => value[k].similarity >= value[k + 1].similarity
           /\ \A i \in DOMAIN call.bullets :
                  i \notin ReturnedTexts =>
                      \A k \in DOMAIN value : SimilarityOf(i) <= value[k].similarity

\* three bullets, top_n = 2: the last bullet came first, the bullet left out
\* has the lowest similarity
C20_Witness ==
    /\ Ranked
    /\ Len(call.bullets) = 3 /\ call.top_n = 2
    /\ Len(call.result.value) = 2
    /\ call.result.value[1].text = 3
    /\ call.result.value[1].similarity > call.result.value[2].similarity
    /\ \E i \in DOMAIN call.bullets :
           i \notin ReturnedTexts /\ SimilarityOf(i) < call.result.value[2].similarity

\* C21: when two bullets have the same similarity to the query,
\* match_bullets_to_jd ranks them in their input order: of two returned bullets
\* with the same similarity the one earlier in the input comes first, and when
\* the cut at top_n falls between two such bullets the earlier one is kept.
C21_TiesInInputOrder ==
    Ranked =>
        LET value == call.result.value
        IN /\ \A k, l \in DOMAIN value :
                  (k < l /\ value[k].similarity = value[l].similarity) =>
                      value[k].text < value[l].text
           /\ \A i \in DOMAIN call.bullets, k \in DOMAIN value :
                  (i \notin ReturnedTexts /\ SimilarityOf(i) = value[k].similarity) =>
                      value[k].text < i

\* the bullet list was ranked twice
CalledAgain == MatchCalled /\ call.again # <<>>

ReportCalled == call.fn = "send_daily_report"

\* the score the payload of row i holds, 0 when it holds none that can be read
ScoreOfRow(i) ==
    CASE jobs[i].analysis = "dict" -> 80
      [] jobs[i].analysis = "score_text" -> 90
      [] jobs[i].analysis = "nested" -> 70
      [] jobs[i].analysis = "score_threshold" -> 60
      [] jobs[i].analysis = "score_low" -> 50
      [] OTHER -> 0

\* the rows that clear the threshold
ClearsThreshold(i) == jobs[i].status = "analyzed" /\ ScoreOfRow(i) >= ScoreThreshold

Hashes(db) == {db[i].content_hash : i \in Ids(db)}

\* C24: no step of any stage removes a row; a stored row keeps its id, dedup
\* hash, company and title for ever; the set of stored hashes only grows.
C24_AppendOnly ==
    [][/\ Len(jobs') >= Len(jobs)
       /\ \A i \in Rows :
              /\ jobs'[i].id = jobs[i].id
              /\ jobs'[i].content_hash = jobs[i].content_hash
              /\ jobs'[i].company = jobs[i].company
              /\ jobs'[i].title = jobs[i].title
       /\ Hashes(jobs) \subseteq Hashes(jobs')]_vars

\* a posting with the hash of a row that was generated came again, under
\* another spelling of the company, beside a second row
C24_Witness ==
    /\ last.op = "insert" /\ last.result = "duplicate"
    /\ Len(jobs) = MaxJobs
    /\ \E i \in Rows :
           /\ jobs[i].content_hash = JobData[last.id].content_hash
           /\ jobs[i].company # Catalog[last.id].company
           /\ jobs[i].status = "generated"

\* the classifier answered: the call and the decoding of the answer succeeded
ClassifierAnswers == {"true", "false", "noverdict"}

\* C25: for an unscored row that passes the age check and the title rule the
\* classifier is asked; when it answers with the verdict relevant the row gets
\* relevance relevant and keeps status new, when it answers with the verdict
\* irrelevant or without a verdict the row gets relevance irrelevant and status
\* filtered.  No other field of the row changes.
C25_VerdictSetsRelevanceAndStatus ==
    [][FilterTurn =>
        LET id == Head(batch)
            row == jobs[id]
        IN (/\ ~_is_too_old(row.posted_at, now)
            /\ ~HasExclusionTerm(row.title)
            /\ last'.resp \in ClassifierAnswers) =>
               /\ last'.called /\ last'.id = id
               /\ row.status = "new"
               /\ IF last'.resp = "true"
                  THEN jobs'[id] = [row EXCEPT !.relevance = "relevant"]
                  ELSE jobs'[id] = [row EXCEPT !.relevance = "irrelevant",
                                               !.status = "filtered"]]_vars

\* a response without a verdict filtered one row after the verdict relevant
\* had kept another
C25_Witness ==
    /\ last.op = "filter" /\ last.called /\ last.resp = "noverdict"
    /\ jobs[last.id].status = "filtered"
    /\ \E i \in Rows : jobs[i].relevance = "relevant" /\ jobs[i].status = "new"

\* the title holds a term of the configured inclusion vocabulary, compared
\* without regard to case
HasInclusionTerm(title) ==
    \E k \in DOMAIN TITLE_INCLUDE_KEYWORDS :
        Contains(Lower(title), TITLE_INCLUDE_KEYWORDS[k])

FallbackReasons == {"LLM failed, fallback to keyword", "LLM failed"}

\* C26: when the classifier call fails the posting is accepted if its title
\* holds a term of the configured inclusion vocabulary (without regard to
\* case) and rejected otherwise, and the reason returned is a fallback reason.
C26_FallbackUsesInclusionVocabulary ==
    (call.fn = "_check_relevance_with_llm" /\ call.response = "fail") =>
        /\ call.result.is_relevant = HasInclusionTerm(call.title)
        /\ call.result.reason \in FallbackReasons

\* the value of the first of the keys that is neither absent nor empty, else
\* the empty value
FirstOf(jd_analysis, keys) ==
    IF \A k \in DOMAIN keys : EmptyKey(jd_analysis[keys[k]]) THEN <<>>
    ELSE LET first == CHOOSE k \in DOMAIN keys :
                          /\ ~EmptyKey(jd_analysis[keys[k]])
                          /\ \A j \in 1..(k - 1) : EmptyKey(jd_analysis[keys[j]])
         IN jd_analysis[keys[first]].val

\* the first description keyword, empty when the list is absent or empty
FirstKeyword(jd_analysis) ==
    IF EmptyKey(jd_analysis.description_keywords) THEN <<>>
    ELSE jd_analysis.description_keywords.val[1]

\* the call raised before it asked for embeddings: in the resolution
RaisedInResolution == call.result.raised /\ ~call.result.embedded

\* C27: the skills of a requirement record are those under hard_skills, else
\* required_skills, else skills; its domain is company_domain, else industry,
\* else the first description keyword; a key that is absent or empty falls
\* through to the next, with all of them absent or empty the result is empty,
\* and the resolution never raises.
C27_AliasResolution ==
    MatchCalled =>
        /\ ~RaisedInResolution
        /\ hard_skills(call.jd_analysis) =
               FirstOf(call.jd_analysis, <<"hard_skills", "required_skills", "skills">>)
        /\ domain(call.jd_analysis) =
               IF FirstOf(call.jd_analysis, <<"company_domain", "industry">>) # <<>>
               THEN FirstOf(call.jd_analysis, <<"company_domain", "industry">>)
               ELSE FirstKeyword(call.jd_analysis)

RECURSIVE Concat(_)
Concat(seqs) == IF seqs = <<>> THEN <<>> ELSE Head(seqs) \o Concat(Tail(seqs))

\* the number of chunks of at most batch_size that n texts make
Chunks(n) == (n + batch_size - 1) \div batch_size

\* C28: embed_texts asks for its texts in consecutive chunks of at most 50, one
\* request for each chunk, in order (every chunk but the last is full), and
\* returns one embedding for each text in the order of the texts: the
\* embedding at i is that of bullet text i, the last one that of the query.
C28_ChunkedInInputOrder ==
    call.fn = "embed_texts" =>
        LET texts == call.texts
            requests == call.requests
            sent == Concat(requests)
        IN /\ \A k \in DOMAIN requests :
                  /\ Len(requests[k]) \in 1..batch_size
                  /\ k < Len(requests) => Len(requests[k]) = batch_size
           /\ Len(sent) <= Len(texts)
           /\ sent = SubSeq(texts, 1, Len(sent))
           /\ call.at = "returned" =>
                  /\ sent = texts
                  /\ Len(requests) = Chunks(Len(texts))
                  /\ Len(call.all_embeddings) = Len(texts)
                  /\ \A i \in 1..(Len(texts) - 1) :
                         call.all_embeddings[i] = Embedding(i)
                  /\ call.all_embeddings[Len(texts)] = Embedding(QueryText)

\* a hundred bullet texts and the query: two full chunks and one that holds
\* the query alone
C28_Witness ==
    /\ call.fn = "embed_texts" /\ call.at = "returned"
    /\ Len(call.texts) = 2 * batch_size + 1
    /\ Len(call.requests) = 3
    /\ call.requests[3] = <<QueryText>>

\* the failures of rendering and typesetting
ArtifactFailures == {"TemplateError", "nonzero", "no_output", "timeout", "not_installed"}

\* C29: a row gets status generated only in the turn of the generate loop in
\* which its artifact was produced, and the artifact path is written with the
\* status; when the template raises, the typesetter exits with an error, gives
\* no file, times out or is not installed, the row stays as it was (analyzed,
\* no artifact path) and the loop goes on with the next row.
C29_GeneratedOnlyWithArtifact ==
    /\ [](\A i \in Rows : (jobs[i].status = "generated") = (jobs[i].resume_path # NULL))
    /\ [][/\ \A i \in Rows :
                 (jobs'[i].status = "generated" /\ jobs[i].status # "generated") =>
                     /\ pc \in GenerateLoop /\ Head(batch) = i
                     /\ last'.op = "generate" /\ last'.id = i /\ last'.resp = "pdf"
                     /\ jobs[i].status = "analyzed"
                     /\ jobs'[i].resume_path # NULL
          /\ (/\ pc \in GenerateLoop /\ batch # <<>> /\ batch' # batch
              /\ last'.op = "generate" /\ last'.resp \in ArtifactFailures) =>
                 /\ last'.id = Head(batch)
                 /\ jobs' = jobs
                 /\ jobs[Head(batch)].status = "analyzed"
                 /\ jobs[Head(batch)].resume_path = NULL
                 /\ pc' = pc
                 /\ batch' = Tail(batch)]_vars

\* the typesetter was not installed for the first row of a batch of two: the
\* row stayed analyzed and the loop went on to the second row
C29_Witness ==
    /\ pc \in GenerateLoop
    /\ last.op = "generate" /\ last.resp = "not_installed"
    /\ jobs[last.id].status = "analyzed" /\ jobs[last.id].resume_path = NULL
    /\ batch # <<>> /\ Head(batch) # last.id

\* C30: a step of the backfill stage changes at most the description of a row:
\* status, relevance, payload, artifact path and every other field stay; a row
\* with status filtered is not changed; a description is written only when the
\* fetched text is longer than 100 characters, so that the new description is
\* never empty, never at or below the threshold and never shorter than the old.
C30_BackfillWritesOnlyDescription ==
    [][StageOf(pc) = "backfill" =>
        /\ Len(jobs') = Len(jobs)
        /\ \A i \in Rows :
               /\ jobs'[i] = [jobs[i] EXCEPT !.jd_len = jobs'[i].jd_len]
               /\ jobs[i].status = "filtered" => jobs'[i] = jobs[i]
               /\ jobs'[i].jd_len # jobs[i].jd_len =>
                      /\ jobs'[i].jd_len > BackfillLen
                      /\ jobs'[i].jd_len > jobs[i].jd_len
                      /\ jobs[i].platform = "linkedin"
                      /\ i = Head(batch)]_vars

\* the description of a relevant row was filled in a table that holds a
\* filtered row
C30_Witness ==
    /\ last.op = "backfill" /\ last.result = "filled"
    /\ jobs[last.id].relevance = "relevant"
    /\ jobs[last.id].jd_len > BackfillLen
    /\ \E i \in Rows : jobs[i].status = "filtered"

EscapeCalled == call.fn = "escape_latex"

\* the escape sequence of one character: the right-hand side of its entry in
\* the list, the character itself when it has none
EscapeOf(c) ==
    IF \E k \in DOMAIN replacements : replacements[k][1] = c
    THEN replacements[CHOOSE k \in DOMAIN replacements : replacements[k][1] = c][2]
    ELSE <<c>>

RECURSIVE CharByChar(_)
CharByChar(text) ==
    IF text = <<>> THEN <<>> ELSE EscapeOf(Head(text)) \o CharByChar(Tail(text))

\* C31: the output of escape_latex is the character-by-character mapping of
\* its input: every special character is replaced by exactly its own escape
\* sequence, every other character is kept.
C31_EscapeIsCharByChar ==
    EscapeCalled => call.result = CharByChar(call.text)

HashCalled == call.fn = "compute_job_hash"

\* what two texts that differ only in letter case, punctuation characters and
\* the amount of leading, trailing or repeated whitespace have in common
Canonical(text) == Strip(CollapseSpace(RemovePunct(Lower(text))))

\* C32: normalizing a normalized text returns it unchanged, and two (company,
\* title) pairs that differ only in letter case, punctuation characters or the
\* amount of leading, trailing or repeated whitespace get the same hash.
C32_NormalizeIdempotentAndCanonical ==
    HashCalled =>
        /\ call.renormalized = call.normalized
        /\ (/\ Canonical(call.company) = Canonical(call.other_company)
            /\ Canonical(call.title) = Canonical(call.other_title))
               => call.hash = call.other_hash

\* C33: while the loop of a filter run is on, every unscored row is one the run
\* selected and has still to process, so that no row is unscored when the loop
\* ends; each turn takes an unscored row and tags it relevant or irrelevant,
\* also when the classifier call fails; a scored row never becomes unscored
\* again, so no row is classified twice.
C33_SelectedRowsAllScored ==
    /\ [](pc = "filter" => \A i \in Rows : Unscored(jobs[i]) => i \in Range(batch))
    /\ [][/\ FilterTurn =>
                /\ Unscored(jobs[Head(batch)])
                /\ jobs'[Head(batch)].relevance \in {"relevant", "irrelevant"}
          /\ \A i \in Rows : ~Unscored(jobs[i]) => ~Unscored(jobs'[i])]_vars

\* the loop of a filter run over a full table has ended with a failed
\* classifier call, and no row is unscored
C33_Witness ==
    /\ pc = "filter" /\ batch = <<>>
    /\ last.op = "filter" /\ last.called /\ last.resp = "fail"
    /\ Len(jobs) = MaxJobs
    /\ \A i \in Rows : ~Unscored(jobs[i])

\* C34: in every reachable state a row has status filtered exactly when its
\* relevance is irrelevant, an unscored row has status new, and the status of a
\* row is one of new, filtered, analyzed and generated, never skipped.
C34_StatusAndRelevanceAgree ==
    \A i \in Rows :
        /\ jobs[i].status = "filtered" <=> jobs[i].relevance = "irrelevant"
        /\ Unscored(jobs[i]) => jobs[i].status = "new"
        /\ jobs[i].status \in {"new", "filtered", "analyzed", "generated"}

\* a failed extractor call has left a relevant row with status new, in a table
\* that holds a filtered row
C34_Witness ==
    /\ \E i \in Rows : jobs[i].status = "filtered" /\ jobs[i].relevance = "irrelevant"
    /\ last.op = "analyze" /\ last.called /\ last.result = NULL
    /\ jobs[last.id].status = "new" /\ jobs[last.id].relevance = "relevant"

\* one turn of the loop of analyze_pending_jobs
AnalyzeTurn == pc = "analyze" /\ pc' = "analyze" /\ batch # <<>> /\ batch' = Tail(batch)

\* the turn is on a new, relevant row and the extractor answered with one of
\* the given results
ExtractorYields(results) ==
    /\ AnalyzeTurn
    /\ jobs[Head(batch)].status = "new" /\ jobs[Head(batch)].relevance = "relevant"
    /\ last'.called /\ last'.resp \in results

\* the turn stored the object the extractor returned and counted the row
StoredAndCounted ==
    /\ jobs' = [jobs EXCEPT ![Head(batch)].analysis = last'.result,
                            ![Head(batch)].status = "analyzed"]
    /\ last'.result # NULL
    /\ changes' = changes + 1

\* C35 as stated: whenever the extractor yields a structured object for a
\* relevant, new row (a single object or the object inside a one-element list,
\* an object with no keys included), the turn stores the object as the
\* payload, sets status analyzed and counts the row.
C35_StructuredResultStored ==
    [][ExtractorYields(StructuredResults) => StoredAndCounted]_vars

\* C35: whenever the extractor yields a structured object with at least one
\* key for a relevant, new row (a single object or the object inside a
\* one-element list), the turn stores the object as the payload, sets status
\* analyzed and counts the row; an object with no keys is a failed analysis:
\* nothing is written, the row stays new and is not counted.
C35_ResultWithKeysStored ==
    [][/\ ExtractorYields(ResultsWithKeys) => StoredAndCounted
       /\ ExtractorYields(StructuredResults \ ResultsWithKeys) =>
              jobs' = jobs /\ changes' = changes]_vars

\* the object inside a one-element list was stored as the payload of a row
\* that is now analyzed
C35_Witness ==
    /\ last.op = "analyze" /\ last.called /\ last.resp = "list_obj"
    /\ jobs[last.id].status = "analyzed"
    /\ jobs[last.id].analysis = last.result /\ last.result = "dict"
    /\ changes > 0

\* C36: for every bullet list, the empty list and lists shorter than top_n
\* included, and every top_n >= 1, match_bullets_to_jd does not raise and
\* returns min(top_n, number of bullets) entries, each one of the input
\* bullets, no bullet twice.  The calls looked at are those whose requirement
\* record resolves and whose embeddings, when asked for, are delivered.
C36_ReturnsMinTopNDistinct ==
    (/\ MatchCalled
     /\ call.top_n >= 1
     /\ ~domain_raises(call.jd_analysis)
     /\ call.embedding.called => call.embedding.ok) =>
        LET value == call.result.value
        IN /\ ~call.result.raised
           /\ Len(value) = Min(call.top_n, Len(call.bullets))
           /\ \A k \in DOMAIN value : value[k].text \in DOMAIN call.bullets
           /\ Cardinality(ReturnedTexts) = Len(value)

====
